---- MODULE Spec2Model ----
(***************************************************************************)
(* A model of the portfolio-tracker client store: the dashboard slice      *)
(* (layouts, widgets, saved views) and the portfolio slice (portfolios,    *)
(* holdings, transactions), composed in stores/index.ts.                   *)
(*                                                                         *)
(* Identifiers.  crypto.randomUUID() is modelled as a fresh value: the     *)
(* n-th call returns <<"uuid", n>>.  A widget id `${type}-${uuid8}` is the  *)
(* pair <<type, n>>, a built-in widget id is the 1-tuple <<type>>, and      *)
(* null is the empty tuple, so that any two ids can be compared.           *)
(* Strings whose characters matter (names) are sequences of one-character  *)
(* strings.                                                                *)
(***************************************************************************)
EXTENDS Integers, Sequences, FiniteSets, TLC

VARIABLES
    portfolios,         \* PortfolioSlice.portfolios
    activePortfolioId,  \* PortfolioSlice.activePortfolioId
    transactions,       \* PortfolioSlice.transactions
    layouts,            \* DashboardSlice.layouts : [lg, md, sm]
    widgets,            \* DashboardSlice.widgets
    savedViews,         \* DashboardSlice.savedViews
    activeViewId,       \* DashboardSlice.activeViewId
    theme,              \* UISlice.theme
    watchlist,          \* UISlice.watchlist
    nextUuid,           \* number of the next crypto.randomUUID() call
    now,                \* the clock read by new Date().toISOString()
    input,              \* the argument of the call under test (pure-function specifications)
    layoutsRef,         \* WidgetGrid: layoutsRef.current
    usingFallback,      \* createSafeStorage: usingFallback
    memoryFallback,     \* createSafeStorage: memoryFallback
    localStorageItems,  \* the items of window.localStorage
    fetchPc,            \* fetchWithRetry: where the call stands
    attempt,            \* fetchWithRetry: attempt
    calls,              \* number of fetch() calls made
    waits,              \* the delays of the setTimeout waits, in order
    lastError,          \* fetchWithRetry: lastError
    settled,            \* how the client call ended: its result or the error thrown
    rateLimitState,     \* quotes route: rateLimitState, its requests
    gets,               \* quotes route: the GET calls, each at its await point
    upstream,           \* quotes route: the times of the fetchSingleQuote calls
    started,            \* quotes route: number of GET calls started
    inputValue,         \* SymbolSearch: inputValue
    results,            \* SymbolSearch: results
    isLoading,          \* SymbolSearch: isLoading
    isOpen,             \* SymbolSearch: isOpen
    timeoutId,          \* SymbolSearch: the query of the pending setTimeout, if any
    searches,           \* SymbolSearch: the queries of the searchSymbols calls in flight
    shownFor,           \* SymbolSearch: the query whose answer set the results
    last                \* the last call: its name, argument and outcome

vars == <<portfolios, activePortfolioId, transactions, layouts, widgets,
          savedViews, activeViewId, theme, watchlist, nextUuid, now, input,
          layoutsRef, usingFallback, memoryFallback, localStorageItems,
          fetchPc, attempt, calls, waits, lastError, settled,
          rateLimitState, gets, upstream, started,
          inputValue, results, isLoading, isOpen, timeoutId, searches, shownFor, last>>

portfolioVars == <<portfolios, activePortfolioId, transactions>>
dashboardVars == <<layouts, widgets, savedViews, activeViewId>>
uiVars == <<theme, watchlist>>
\* the state kept outside the store: by the components, the storage and the clients
componentVars == <<layoutsRef>>
storageVars == <<usingFallback, memoryFallback, localStorageItems>>
fetchVars == <<fetchPc, attempt, calls, waits, lastError, settled>>
routeVars == <<rateLimitState, gets, upstream, started>>
searchVars == <<inputValue, results, isLoading, isOpen, timeoutId, searches, shownFor>>
envVars == <<componentVars, storageVars, fetchVars, routeVars, searchVars>>
storeVars == <<portfolioVars, dashboardVars, uiVars, nextUuid, now, input>>

----------------------------------------------------------------------------
(* Bounds of the model *)

\* GET calls of the quotes route in one run
MaxGetCalls == 2
\* the last time the clock of the quotes route reaches, in ms
MaxClock == 60400
\* the time that passes in one step of the clock when no timer is due, in ms
ClockStep == 60000
\* searchSymbols calls of the search box in flight at once
MaxSearches == 2

\* crypto.randomUUID() calls in one run
MaxUuid == 2
\* saved views kept at once in the dashboard specification
MaxDashViews == 1
\* saved views kept at once in the saved-view specification
MaxViews == 3
\* saveView calls in one run of the saved-view specification
MaxViewUuid == 4
\* crypto.randomUUID() calls in one run of the portfolio specification
MaxPortfolioUuid == 5
\* portfolios kept at once
MaxPortfolios == 2
\* holdings of one portfolio
MaxHoldings == 2
\* transactions kept at once
MaxTransactions == 2
\* length of the enumerated names
MaxNameLen == 3
\* watchlist entries kept at once
MaxWatchlist == 3
\* crypto.randomUUID() calls in one run of the import specification
MaxImportUuid == 1
\* crypto.randomUUID() calls in one run of the holdings specification
MaxHoldingUuid == 4

----------------------------------------------------------------------------
(* Values *)

Null == <<>>

Uuid(n) == <<"uuid", n>>

\* y: Infinity, the "append at the bottom" position of react-grid-layout
Infinity == 999999

None == [op |-> "none"]

\* what a call did to the store
Outcome(before, after) == IF before = after THEN "unchanged" ELSE "changed"

\* Array.prototype.filter, keeping the order
Filter(s, Keep(_)) == SelectSeq(s, Keep)

\* Array.prototype.map
Map(s, F(_)) == [k \in 1..Len(s) |-> F(s[k])]

Range(s) == {s[k] : k \in 1..Len(s)}

----------------------------------------------------------------------------
(* Names: String.prototype.trim and the name pattern /^[a-zA-Z0-9\s\-_]+$/ *)

\* the white space of trim() and of \s that the model's names draw on
WhiteSpace == {" ", "\t", "\n"}

Letters ==
    {"a","b","c","d","e","f","g","h","i","j","k","l","m",
     "n","o","p","q","r","s","t","u","v","w","x","y","z",
     "A","B","C","D","E","F","G","H","I","J","K","L","M",
     "N","O","P","Q","R","S","T","U","V","W","X","Y","Z"}

Digits == {"0","1","2","3","4","5","6","7","8","9"}

RECURSIVE TrimStart(_)
TrimStart(s) ==
    IF s # <<>> /\ Head(s) \in WhiteSpace THEN TrimStart(Tail(s)) ELSE s

RECURSIVE TrimEnd(_)
TrimEnd(s) ==
    IF s # <<>> /\ s[Len(s)] \in WhiteSpace THEN TrimEnd(SubSeq(s, 1, Len(s) - 1)) ELSE s

\* name.trim()
Trim(s) == TrimEnd(TrimStart(s))

\* the character class [a-zA-Z0-9\s\-_]
NameClass == Letters \cup Digits \cup WhiteSpace \cup {"-", "_"}

\* /^[a-zA-Z0-9\s\-_]+$/.test(s)
NAME_REGEX_test(s) == Len(s) >= 1 /\ \A k \in 1..Len(s) : s[k] \in NameClass

MAX_VIEW_NAME_LENGTH == 50
MAX_PORTFOLIO_NAME_LENGTH == 50

----------------------------------------------------------------------------
(* Dashboard slice *)

Item(id, x, y, w, h, minW, minH) ==
    [i |-> id, x |-> x, y |-> y, w |-> w, h |-> h, minW |-> minW, minH |-> minH]

DEFAULT_LAYOUTS ==
    [lg |-> << Item(<<"portfolio-summary">>, 0, 0, 4, 2, 3, 2),
               Item(<<"allocation-chart">>, 4, 0, 4, 4, 3, 3),
               Item(<<"holdings-table">>, 0, 2, 8, 4, 6, 3) >>,
     md |-> << Item(<<"portfolio-summary">>, 0, 0, 5, 2, 3, 2),
               Item(<<"allocation-chart">>, 5, 0, 5, 4, 3, 3),
               Item(<<"holdings-table">>, 0, 2, 10, 4, 6, 3) >>,
     sm |-> << Item(<<"portfolio-summary">>, 0, 0, 6, 2, 3, 2),
               Item(<<"allocation-chart">>, 0, 2, 6, 4, 3, 3),
               Item(<<"holdings-table">>, 0, 6, 6, 4, 4, 3) >>]

\* settings: a key-value bag, here a function from some of the keys
EmptySettings == <<>>

Widget(id, type, settings, addedAt) ==
    [id |-> id, type |-> type, settings |-> settings, addedAt |-> addedAt]

getDefaultWidgets(t) ==
    << Widget(<<"portfolio-summary">>, "portfolio-summary", EmptySettings, t),
       Widget(<<"allocation-chart">>, "allocation-chart", EmptySettings, t),
       Widget(<<"holdings-table">>, "holdings-table", EmptySettings, t) >>

Size(w, h, minW, minH) == [w |-> w, h |-> h, minW |-> minW, minH |-> minH]

\* defaultSizes[type] ?? { w: 4, h: 4, minW: 2, minH: 2 }
defaultSizes(type) ==
    CASE type = "portfolio-summary" -> Size(4, 2, 3, 2)
      [] type = "holdings-table"    -> Size(8, 4, 6, 3)
      [] type = "allocation-chart"  -> Size(4, 4, 3, 3)
      [] type = "performance-chart" -> Size(8, 4, 4, 3)
      [] type = "price-chart"       -> Size(6, 4, 4, 3)
      [] type = "watchlist"         -> Size(4, 4, 3, 3)
      [] type = "dividends"         -> Size(4, 3, 3, 2)
      [] OTHER                      -> Size(4, 4, 2, 2)

\* newLayoutItem with the widget's type in the place of its id
newLayoutItemKeyedByType(id, type) ==
    LET size == defaultSizes(type)
    IN  Item(<<type>>, 0, Infinity, size.w, size.h, size.minW, size.minH)

\* { i: id, x: 0, y: Infinity, ...size }
newLayoutItem(id, type) ==
    LET size == defaultSizes(type)
    IN  Item(id, 0, Infinity, size.w, size.h, size.minW, size.minH)

\* { ...w.settings, ...settings }: the keys of both, the second winning
MergeSettings(old, new) ==
    [k \in DOMAIN old \cup DOMAIN new |-> IF k \in DOMAIN new THEN new[k] ELSE old[k]]

\* structuredClone of a layouts object: a new object holding new arrays of new items
CloneLayouts(l) ==
    [lg |-> [k \in 1..Len(l.lg) |-> [f \in DOMAIN l.lg[k] |-> l.lg[k][f]]],
     md |-> [k \in 1..Len(l.md) |-> [f \in DOMAIN l.md[k] |-> l.md[k][f]]],
     sm |-> [k \in 1..Len(l.sm) |-> [f \in DOMAIN l.sm[k] |-> l.sm[k][f]]]]

\* structuredClone of a widget list
CloneWidgets(ws) ==
    [k \in 1..Len(ws) |->
        Widget(ws[k].id, ws[k].type,
               [s \in DOMAIN ws[k].settings |-> ws[k].settings[s]], ws[k].addedAt)]

WidgetIds(ws) == {ws[k].id : k \in 1..Len(ws)}
LayoutIds(arr) == {arr[k].i : k \in 1..Len(arr)}
ViewIds == {savedViews[k].id : k \in 1..Len(savedViews)}

updateLayouts(newLayouts) ==
    /\ layouts' = newLayouts
    /\ last' = [op |-> "updateLayouts", result |-> Outcome(layouts, layouts')]
    /\ UNCHANGED <<widgets, savedViews, activeViewId, portfolioVars, uiVars, nextUuid, now, input, envVars>>

addWidget(type, settings) ==
    LET id == <<type, nextUuid>>
        newWidget == Widget(id, type, settings, now)
        item == newLayoutItem(id, type)
    IN  /\ widgets' = widgets \o <<newWidget>>
        /\ layouts' = [lg |-> layouts.lg \o <<item>>,
                       md |-> layouts.md \o <<item>>,
                       sm |-> layouts.sm \o <<item>>]
        /\ nextUuid' = nextUuid + 1
        /\ last' = [op |-> "addWidget", result |-> "changed"]
        /\ UNCHANGED <<savedViews, activeViewId, portfolioVars, uiVars, now, input, envVars>>

\* removeWidgetFrom with the test of the filter inverted
removeWidgetFromInverted(ws, id) == Filter(ws, LAMBDA w : w.id = id)

\* widgets.filter((w) => w.id !== id)
removeWidgetFrom(ws, id) == Filter(ws, LAMBDA w : w.id # id)

\* removeLayoutFrom that filters lg and leaves md and sm as they are
removeLayoutFromLgOnly(l, id) ==
    [lg |-> Filter(l.lg, LAMBDA e : e.i # id), md |-> l.md, sm |-> l.sm]

removeLayoutFrom(l, id) ==
    [lg |-> Filter(l.lg, LAMBDA e : e.i # id),
     md |-> Filter(l.md, LAMBDA e : e.i # id),
     sm |-> Filter(l.sm, LAMBDA e : e.i # id)]

\* removeWidget that also takes the widget out of every saved view
removeWidgetEverywhere(id) ==
    /\ widgets' = removeWidgetFrom(widgets, id)
    /\ layouts' = removeLayoutFrom(layouts, id)
    /\ savedViews' = Map(savedViews, LAMBDA v :
                        [v EXCEPT !.config.widgets = removeWidgetFrom(v.config.widgets, id),
                                  !.config.layouts = removeLayoutFrom(v.config.layouts, id)])
    /\ last' = [op |-> "removeWidget", result |-> Outcome(<<widgets, layouts>>, <<widgets', layouts'>>)]
    /\ UNCHANGED <<activeViewId, portfolioVars, uiVars, nextUuid, now, input, envVars>>

removeWidget(id) ==
    /\ widgets' = removeWidgetFrom(widgets, id)
    /\ layouts' = removeLayoutFrom(layouts, id)
    /\ last' = [op |-> "removeWidget", result |-> Outcome(<<widgets, layouts>>, <<widgets', layouts'>>)]
    /\ UNCHANGED <<savedViews, activeViewId, portfolioVars, uiVars, nextUuid, now, input, envVars>>

updateWidgetSettings(id, settings) ==
    /\ widgets' = Map(widgets, LAMBDA w :
                        IF w.id = id
                        THEN [w EXCEPT !.settings = MergeSettings(w.settings, settings)]
                        ELSE w)
    /\ last' = [op |-> "updateWidgetSettings", result |-> Outcome(widgets, widgets')]
    /\ UNCHANGED <<layouts, savedViews, activeViewId, portfolioVars, uiVars, nextUuid, now, input, envVars>>

resetToDefaults ==
    /\ layouts' = DEFAULT_LAYOUTS
    /\ widgets' = getDefaultWidgets(now)
    /\ last' = [op |-> "resetToDefaults", result |-> Outcome(<<widgets, layouts>>, <<widgets', layouts'>>)]
    /\ UNCHANGED <<savedViews, activeViewId, portfolioVars, uiVars, nextUuid, now, input, envVars>>

\* the three checks of saveView, in the code's order; "" when the name passes
saveViewError(trimmedName) ==
    IF trimmedName = <<>> THEN "View name cannot be empty"
    ELSE IF Len(trimmedName) > MAX_VIEW_NAME_LENGTH THEN "View name cannot exceed 50 characters"
    ELSE IF ~NAME_REGEX_test(trimmedName)
         THEN "View name can only contain letters, numbers, spaces, hyphens, and underscores"
    ELSE ""

\* isDefault of the view saveView creates, always true
newViewIsDefaultAlways(views) == TRUE

\* isDefault: savedViews.length === 0
newViewIsDefault(views) == Len(views) = 0

saveView(name) ==
    LET trimmedName == Trim(name)
        id == Uuid(nextUuid)
        newView == [id |-> id,
                    name |-> trimmedName,
                    isDefault |-> newViewIsDefault(savedViews),
                    createdAt |-> now,
                    updatedAt |-> now,
                    config |-> [layouts |-> CloneLayouts(layouts),
                                widgets |-> CloneWidgets(widgets),
                                theme |-> theme,
                                accentColor |-> "emerald"]]
    IN  IF saveViewError(trimmedName) # ""
        THEN /\ last' = [op |-> "saveView", result |-> "threw"]
             /\ UNCHANGED <<dashboardVars, portfolioVars, uiVars, nextUuid, now, input, envVars>>
        ELSE /\ savedViews' = savedViews \o <<newView>>
             /\ activeViewId' = id
             /\ nextUuid' = nextUuid + 1
             /\ last' = [op |-> "saveView", result |-> "changed"]
             /\ UNCHANGED <<layouts, widgets, portfolioVars, uiVars, now, input, envVars>>

\* savedViews.find((v) => v.id === id): the position of the first match, 0 when none
findView(id) ==
    IF \E k \in 1..Len(savedViews) : savedViews[k].id = id
    THEN CHOOSE k \in 1..Len(savedViews) :
            /\ savedViews[k].id = id
            /\ \A j \in 1..(k - 1) : savedViews[j].id # id
    ELSE 0

\* the guards of loadView, never passed
loadableNever(k) == FALSE

\* view && view.config?.layouts && view.config?.widgets
\*      && layouts.lg && layouts.md && layouts.sm && Array.isArray(widgets)
loadable(k) ==
    /\ k # 0
    /\ "config" \in DOMAIN savedViews[k]
    /\ {"layouts", "widgets"} \subseteq DOMAIN savedViews[k].config
    /\ {"lg", "md", "sm"} \subseteq DOMAIN savedViews[k].config.layouts

loadView(id) ==
    LET k == findView(id)
    IN  IF loadable(k)
        THEN /\ layouts' = CloneLayouts(savedViews[k].config.layouts)
             /\ widgets' = CloneWidgets(savedViews[k].config.widgets)
             /\ activeViewId' = id
             /\ last' = [op |-> "loadView", result |-> Outcome(<<layouts, widgets, activeViewId>>,
                                            <<layouts', widgets', activeViewId'>>)]
             /\ UNCHANGED <<savedViews, portfolioVars, uiVars, nextUuid, now, input, envVars>>
        ELSE /\ last' = [op |-> "loadView", result |-> "unchanged"]
             /\ UNCHANGED <<dashboardVars, portfolioVars, uiVars, nextUuid, now, input, envVars>>

\* the saved views deleteView(id) leaves
deleteViewViews(views, id) ==
    LET filtered == Filter(views, LAMBDA v : v.id # id)
        needsNewDefault == Len(filtered) > 0 /\ \A k \in 1..Len(filtered) : ~filtered[k].isDefault
    IN  IF needsNewDefault
        THEN [k \in 1..Len(filtered) |->
                IF k = 1 THEN [filtered[k] EXCEPT !.isDefault = TRUE] ELSE filtered[k]]
        ELSE filtered

\* the active view deleteView leaves, the deleted one included
activeViewAfterDeleteKept(active, id, updatedViews) == active

\* state.activeViewId === id ? updatedViews[0]?.id ?? null : state.activeViewId
activeViewAfterDelete(active, id, updatedViews) ==
    IF active = id
    THEN (IF Len(updatedViews) > 0 THEN updatedViews[1].id ELSE Null)
    ELSE active

deleteView(id) ==
    LET updatedViews == deleteViewViews(savedViews, id)
    IN  /\ savedViews' = updatedViews
        /\ activeViewId' = activeViewAfterDelete(activeViewId, id, updatedViews)
        /\ last' = [op |-> "deleteView", result |-> Outcome(<<savedViews, activeViewId>>, <<savedViews', activeViewId'>>)]
        /\ UNCHANGED <<layouts, widgets, portfolioVars, uiVars, nextUuid, now, input, envVars>>

\* the saved views setDefaultView(id) leaves
setDefaultViewViews(views, id) ==
    Map(views, LAMBDA v : [v EXCEPT !.isDefault = (v.id = id)])

setDefaultView(id) ==
    /\ savedViews' = setDefaultViewViews(savedViews, id)
    /\ last' = [op |-> "setDefaultView", result |-> Outcome(savedViews, savedViews')]
    /\ UNCHANGED <<layouts, widgets, activeViewId, portfolioVars, uiVars, nextUuid, now, input, envVars>>

----------------------------------------------------------------------------
(* Portfolio slice *)

\* the three checks of createPortfolio, in the code's order; "" when the name passes
createPortfolioError(trimmedName) ==
    IF trimmedName = <<>> THEN "Portfolio name cannot be empty"
    ELSE IF Len(trimmedName) > MAX_PORTFOLIO_NAME_LENGTH
         THEN "Portfolio name cannot exceed 50 characters"
    ELSE IF ~NAME_REGEX_test(trimmedName)
         THEN "Portfolio name can only contain letters, numbers, spaces, hyphens, and underscores"
    ELSE ""

PortfolioIds == {portfolios[k].id : k \in 1..Len(portfolios)}

\* activeAfterCreate that makes the newest portfolio the active one
activeAfterCreateNewest(active, id) == id

\* state.activePortfolioId ?? id
activeAfterCreate(active, id) == IF active = Null THEN id ELSE active

createPortfolio(name, currency) ==
    LET trimmedName == Trim(name)
        id == Uuid(nextUuid)
        newPortfolio == [id |-> id,
                         name |-> trimmedName,
                         currency |-> currency,
                         createdAt |-> now,
                         holdings |-> <<>>]
    IN  IF createPortfolioError(trimmedName) # ""
        THEN /\ last' = [op |-> "createPortfolio", result |-> "threw"]
             /\ UNCHANGED <<portfolioVars, dashboardVars, uiVars, nextUuid, now, input, envVars>>
        ELSE /\ portfolios' = portfolios \o <<newPortfolio>>
             /\ activePortfolioId' = activeAfterCreate(activePortfolioId, id)
             /\ nextUuid' = nextUuid + 1
             /\ last' = [op |-> "createPortfolio", result |-> "changed"]
             /\ UNCHANGED <<transactions, dashboardVars, uiVars, now, input, envVars>>

\* activeAfterDelete that selects no portfolio once the active one is deleted
activeAfterDeleteToNull(active, id, filtered) == IF active = id THEN Null ELSE active

\* state.activePortfolioId === id ? filtered[0]?.id ?? null : state.activePortfolioId
activeAfterDelete(active, id, filtered) ==
    IF active = id
    THEN (IF Len(filtered) > 0 THEN filtered[1].id ELSE Null)
    ELSE active

deletePortfolio(id) ==
    LET filtered == Filter(portfolios, LAMBDA p : p.id # id)
    IN  /\ portfolios' = filtered
        /\ activePortfolioId' = activeAfterDelete(activePortfolioId, id, filtered)
        /\ last' = [op |-> "deletePortfolio",
                    result |-> Outcome(<<portfolios, activePortfolioId>>,
                                       <<portfolios', activePortfolioId'>>),
                    wasActive |-> (activePortfolioId = id)]
        /\ UNCHANGED <<transactions, dashboardVars, uiVars, nextUuid, now, input, envVars>>

setActivePortfolio(id) ==
    /\ activePortfolioId' = id
    /\ last' = [op |-> "setActivePortfolio", result |-> Outcome(activePortfolioId, id)]
    /\ UNCHANGED <<portfolios, transactions, dashboardVars, uiVars, nextUuid, now, input, envVars>>

\* portfolios.map((p) => p.id === activePortfolioId ? { ...p, holdings: f(p.holdings) } : p)
mapActiveHoldings(ps, active, F(_)) ==
    Map(ps, LAMBDA p : IF p.id = active THEN [p EXCEPT !.holdings = F(p.holdings)] ELSE p)

\* { ...a, ...b }: the fields of both, the second winning
Spread(a, b) == [k \in DOMAIN a \cup DOMAIN b |-> IF k \in DOMAIN b THEN b[k] ELSE a[k]]

addHolding(holdingData) ==
    LET id == Uuid(nextUuid)
        newHolding == Spread(holdingData, [id |-> id, createdAt |-> now, updatedAt |-> now])
    IN  /\ portfolios' = mapActiveHoldings(portfolios, activePortfolioId,
                                           LAMBDA hs : hs \o <<newHolding>>)
        /\ nextUuid' = nextUuid + 1
        /\ last' = [op |-> "addHolding", result |-> Outcome(portfolios, portfolios')]
        /\ UNCHANGED <<activePortfolioId, transactions, dashboardVars, uiVars, now, input, envVars>>

updateHolding(id, updates) ==
    /\ portfolios' = mapActiveHoldings(portfolios, activePortfolioId,
                        LAMBDA hs : Map(hs, LAMBDA h :
                            IF h.id = id
                            THEN Spread(Spread(h, updates), [updatedAt |-> now])
                            ELSE h))
    /\ last' = [op |-> "updateHolding", result |-> Outcome(portfolios, portfolios')]
    /\ UNCHANGED <<activePortfolioId, transactions, dashboardVars, uiVars, nextUuid, now, input, envVars>>

\* deleteHoldingTransactions that compares the transaction's own id
deleteHoldingTransactionsById(ts, id) == Filter(ts, LAMBDA t : t.id # id)

\* transactions.filter((t) => t.holdingId !== id)
deleteHoldingTransactions(ts, id) == Filter(ts, LAMBDA t : t.holdingId # id)

deleteHolding(id) ==
    /\ portfolios' = mapActiveHoldings(portfolios, activePortfolioId,
                        LAMBDA hs : Filter(hs, LAMBDA h : h.id # id))
    /\ transactions' = deleteHoldingTransactions(transactions, id)
    /\ last' = [op |-> "deleteHolding",
                result |-> Outcome(<<portfolios, transactions>>, <<portfolios', transactions'>>),
                removed |-> Len(transactions) - Len(transactions')]
    /\ UNCHANGED <<activePortfolioId, dashboardVars, uiVars, nextUuid, now, input, envVars>>

addTransaction(transactionData) ==
    LET id == Uuid(nextUuid)
    IN  /\ transactions' = transactions \o <<Spread(transactionData, [id |-> id])>>
        /\ nextUuid' = nextUuid + 1
        /\ last' = [op |-> "addTransaction", result |-> "changed"]
        /\ UNCHANGED <<portfolios, activePortfolioId, dashboardVars, uiVars, now, input, envVars>>

----------------------------------------------------------------------------
(* The composed store (stores/index.ts) *)

resetStore ==
    /\ portfolios' = <<>>
    /\ activePortfolioId' = Null
    /\ transactions' = <<>>
    /\ layouts' = [lg |-> <<>>, md |-> <<>>, sm |-> <<>>]
    /\ widgets' = <<>>
    /\ savedViews' = <<>>
    /\ activeViewId' = Null
    /\ watchlist' = <<>>
    /\ last' = [op |-> "resetStore", result |-> Outcome(<<portfolioVars, dashboardVars, watchlist>>,
                                   <<portfolioVars', dashboardVars', watchlist'>>)]
    /\ UNCHANGED <<theme, nextUuid, now, input, envVars>>

\* the GET calls of the quotes route that can be in progress at once
GetSlots == {1, 2}

\* a GET call that has not started: its place in the handler, the parsed symbols,
\* the position of the loop, the quotes and errors objects, the time its setTimeout
\* fires, the status of its response
IdleGet ==
    [pc |-> "idle", symbols |-> <<>>, k |-> 0, quotes |-> {}, errors |-> <<>>,
     wakeAt |-> 0, status |-> 0]

\* the state outside the store before anything has run
EnvInit ==
    /\ rateLimitState = [requests |-> <<>>]
    /\ gets = [g \in GetSlots |-> IdleGet]
    /\ upstream = <<>>
    /\ started = 0
    /\ inputValue = <<>>
    /\ results = <<>>
    /\ isLoading = FALSE
    /\ isOpen = FALSE
    /\ timeoutId = Null
    /\ searches = <<>>
    /\ shownFor = Null
    /\ layoutsRef = DEFAULT_LAYOUTS
    /\ usingFallback = FALSE
    /\ memoryFallback = <<>>
    /\ localStorageItems = <<>>
    /\ fetchPc = "idle"
    /\ attempt = 0
    /\ calls = 0
    /\ waits = <<>>
    /\ lastError = Null
    /\ settled = Null

\* the store as created: the slices' initial values
Init ==
    /\ portfolios = <<>>
    /\ activePortfolioId = Null
    /\ transactions = <<>>
    /\ layouts = DEFAULT_LAYOUTS
    /\ widgets = getDefaultWidgets(0)
    /\ savedViews = <<>>
    /\ activeViewId = Null
    /\ theme = "dark"
    /\ watchlist = <<>>
    /\ nextUuid = 1
    /\ now = 0
    /\ input = Null
    /\ EnvInit
    /\ last = None

----------------------------------------------------------------------------
(* The dashboard specification: the widget and saved-view operations *)

\* the widget types addWidget is called with: one with a default size, one without
WidgetTypeInputs == {"watchlist", "news-feed"}

SettingsInputs == {[timeframe |-> "1W"]}

\* the addWidget calls: addWidget("watchlist") and addWidget("news-feed", {timeframe: "1D"})
AddWidgetInputs == {<<"watchlist", EmptySettings>>, <<"news-feed", [timeframe |-> "1D"]>>}

\* ids of calls that name an added widget: every id addWidget can have given out
\* so far (on the dashboard or removed since), and one never given out
AddedWidgetIdInputs ==
    {<<"missing">>} \cup {<<t, n>> : t \in WidgetTypeInputs, n \in 1..(nextUuid - 1)}

\* ids of calls that name a widget: a built-in one as well
WidgetIdInputs == {<<"portfolio-summary">>} \cup AddedWidgetIdInputs

\* ids of calls that name a view: every id saveView can have given out so far,
\* and one never given out
ViewIdInputs == {Uuid(n) : n \in 1..(nextUuid - 1)} \cup {<<"missing">>}

\* a name that passes once trimmed, and one with a character outside the pattern
ViewNameInputs == {<<" ", "v">>, <<"v", "@">>}

NextDash ==
    \/ \E a \in AddWidgetInputs : nextUuid <= MaxUuid /\ addWidget(a[1], a[2])
    \/ \E id \in WidgetIdInputs : removeWidget(id)
    \/ \E id \in WidgetIdInputs, s \in SettingsInputs : updateWidgetSettings(id, s)
    \/ \E n \in ViewNameInputs :
            nextUuid <= MaxUuid /\ Len(savedViews) < MaxDashViews /\ saveView(n)
    \/ \E id \in ViewIdInputs : loadView(id)
    \/ resetToDefaults
    \/ resetStore

SpecDash == Init /\ [][NextDash]_vars

\* what the grid hands to updateLayouts: the stored layouts with the first lg item
\* dragged from column 0 to column 1 or back, and the layouts of the slice's unit test
MovedLayouts ==
    [layouts EXCEPT !.lg = [k \in 1..Len(layouts.lg) |->
                                IF k = 1
                                THEN [layouts.lg[k] EXCEPT !.x = IF layouts.lg[k].x = 0 THEN 1 ELSE 0]
                                ELSE layouts.lg[k]]]

TestLayouts ==
    [lg |-> << Item(<<"test">>, 0, 0, 4, 2, 2, 2) >>,
     md |-> << Item(<<"test">>, 0, 0, 4, 2, 2, 2) >>,
     sm |-> << Item(<<"test">>, 0, 0, 4, 2, 2, 2) >>]

LayoutsInputs == {MovedLayouts, TestLayouts}

\* the calls that change the live dashboard
LiveMutation ==
    \/ \E a \in AddWidgetInputs : nextUuid <= MaxUuid /\ addWidget(a[1], a[2])
    \/ \E id \in AddedWidgetIdInputs : removeWidget(id)
    \/ \E id \in AddedWidgetIdInputs, s \in SettingsInputs : updateWidgetSettings(id, s)
    \/ \E l \in LayoutsInputs : updateLayouts(l)
    \/ resetToDefaults

NextLive ==
    \/ LiveMutation
    \/ \E n \in ViewNameInputs :
            nextUuid <= MaxUuid /\ Len(savedViews) < MaxDashViews /\ saveView(n)
    \/ \E id \in ViewIdInputs : loadView(id)

SpecLive == Init /\ [][NextLive]_vars

NextViews ==
    \/ \E n \in ViewNameInputs :
            nextUuid <= MaxViewUuid /\ Len(savedViews) < MaxViews /\ saveView(n)
    \/ \E id \in ViewIdInputs : loadView(id)
    \/ \E id \in ViewIdInputs : deleteView(id)
    \/ \E id \in ViewIdInputs : setDefaultView(id)

SpecViews == Init /\ [][NextViews]_vars

----------------------------------------------------------------------------
(* The portfolio specification *)

\* a name that passes once trimmed, and one with a character outside the pattern
PortfolioNameInputs == {<<"p", " ">>, <<"p", "@">>}

\* ids of calls that name a portfolio: those of the portfolios, and one that names none
PortfolioIdInputs == PortfolioIds \cup {<<"missing">>}

\* the holdings of the active portfolio, <<>> when no portfolio is active
ActiveHoldings ==
    IF \E k \in 1..Len(portfolios) : portfolios[k].id = activePortfolioId
    THEN (CHOOSE p \in Range(portfolios) : p.id = activePortfolioId).holdings
    ELSE <<>>

AllHoldingIds == UNION {{p.holdings[k].id : k \in 1..Len(p.holdings)} : p \in Range(portfolios)}

\* ids of calls that name a holding: those of the holdings of any portfolio, and one
\* that names none
HoldingIdInputs == AllHoldingIds \cup {<<"missing">>}

\* the holding of the slice's unit tests (avgCostBasis in tenths)
HoldingInputs ==
    {[symbol |-> "VTI", name |-> "Vanguard Total Stock Market ETF", shares |-> 100,
      avgCostBasis |-> 2005, purchaseDate |-> "2024-01-15"]}

UpdateInputs == {[shares |-> 50]}

\* the transactions recorded: a purchase for a holding of some portfolio, or for an
\* id that names none
TransactionInputs ==
    {[holdingId |-> h, type |-> "BUY", shares |-> 100, pricePerShare |-> 2005,
      date |-> "2024-01-15"] : h \in AllHoldingIds \cup {<<"missing">>}}

NextPortfolio ==
    \/ \E n \in PortfolioNameInputs :
            /\ nextUuid <= MaxPortfolioUuid /\ Len(portfolios) < MaxPortfolios
            /\ createPortfolio(n, "USD")
    \/ \E id \in PortfolioIdInputs : deletePortfolio(id)
    \/ \E id \in PortfolioIdInputs : setActivePortfolio(id)
    \/ \E h \in HoldingInputs :
            /\ nextUuid <= MaxPortfolioUuid /\ Len(ActiveHoldings) < MaxHoldings
            /\ addHolding(h)
    \/ \E id \in HoldingIdInputs, u \in UpdateInputs : updateHolding(id, u)
    \/ \E id \in HoldingIdInputs : deleteHolding(id)
    \/ \E t \in TransactionInputs :
            /\ nextUuid <= MaxPortfolioUuid /\ Len(transactions) < MaxTransactions
            /\ addTransaction(t)

SpecPortfolio == Init /\ [][NextPortfolio]_vars

----------------------------------------------------------------------------
(* The name specification: one createPortfolio call on each name *)

\* the characters of the enumerated names: a lower-case and an upper-case letter, a
\* digit, a space, a tab, the underscore, the hyphen and a character of no class
NameAlphabet == {"a", "Z", "7", " ", "\t", "_", "-", "@"}

\* n times the letter "a"
Repeat(n) == [k \in 1..n |-> "a"]

\* every name of at most MaxNameLen characters, and names at the length limit:
\* 50 letters, 51 letters, and 50 letters between spaces
NameInputs ==
    UNION {[1..k -> NameAlphabet] : k \in 0..MaxNameLen}
        \cup {Repeat(MAX_PORTFOLIO_NAME_LENGTH),
              Repeat(MAX_PORTFOLIO_NAME_LENGTH + 1),
              <<" ">> \o Repeat(MAX_PORTFOLIO_NAME_LENGTH) \o <<" ">>}

\* the store as created, or holding one portfolio made by createPortfolio("a")
InitNames ==
    /\ input \in NameInputs
    /\ \/ /\ portfolios = <<>>
          /\ activePortfolioId = Null
          /\ nextUuid = 1
       \/ /\ portfolios = << [id |-> Uuid(1), name |-> <<"a">>, currency |-> "USD",
                              createdAt |-> 0, holdings |-> <<>>] >>
          /\ activePortfolioId = Uuid(1)
          /\ nextUuid = 2
    /\ transactions = <<>>
    /\ layouts = DEFAULT_LAYOUTS
    /\ widgets = getDefaultWidgets(0)
    /\ savedViews = <<>>
    /\ activeViewId = Null
    /\ theme = "dark"
    /\ watchlist = <<>>
    /\ now = 0
    /\ EnvInit
    /\ last = None

NextNames == last.op = "none" /\ createPortfolio(input, "USD")

SpecNames == InitNames /\ [][NextNames]_vars

----------------------------------------------------------------------------
(* Claims about the dashboard slice *)

IsBuiltIn(id) == Len(id) = 1

\* C1: in every state reached by addWidget, removeWidget, updateWidgetSettings,
\* saveView, loadView, resetToDefaults and resetStore, each of layouts.lg, layouts.md
\* and layouts.sm holds exactly the ids of the widgets list.
C1_LayoutIdsAreWidgetIds ==
    /\ LayoutIds(layouts.lg) = WidgetIds(widgets)
    /\ LayoutIds(layouts.md) = WidgetIds(widgets)
    /\ LayoutIds(layouts.sm) = WidgetIds(widgets)

\* C1 witness: a view was loaded onto a dashboard that holds an added widget and
\* has lost a built-in one.
C1_Witness ==
    /\ last.op = "loadView" /\ last.result = "changed"
    /\ <<"portfolio-summary">> \notin WidgetIds(widgets)
    /\ \E id \in WidgetIds(widgets) : ~IsBuiltIn(id)

\* C8: every addWidget call appends one entry to the widgets list and one layout
\* entry with that widget's id to each of lg, md and sm, and changes no entry
\* that was there.
C8_AddWidgetAppendsOne ==
    [][\A a \in AddWidgetInputs : addWidget(a[1], a[2]) =>
            LET n == Len(widgets)
                AppendsOne(old, new) ==
                    /\ Len(new) = Len(old) + 1
                    /\ SubSeq(new, 1, Len(old)) = old
                    /\ new[Len(new)].i = widgets'[n + 1].id
            IN  /\ Len(widgets') = n + 1
                /\ SubSeq(widgets', 1, n) = widgets
                /\ widgets'[n + 1].type = a[1]
                /\ widgets'[n + 1].id \notin WidgetIds(widgets)
                /\ AppendsOne(layouts.lg, layouts'.lg)
                /\ AppendsOne(layouts.md, layouts'.md)
                /\ AppendsOne(layouts.sm, layouts'.sm)]_vars

\* C8 witness: addWidget has just run on a dashboard that held four widgets.
C8_Witness ==
    /\ last.op = "addWidget"
    /\ Len(widgets) = 5
    /\ Len(layouts.lg) = 5 /\ Len(layouts.md) = 5 /\ Len(layouts.sm) = 5

\* C9: removeWidget(id) takes id out of the widgets list and of the three layout
\* arrays in one step; removing it again, or removing an id that is not there,
\* changes nothing, and no call throws.
C9_RemoveWidgetIdempotent ==
    [][\A id \in WidgetIdInputs : removeWidget(id) =>
            /\ id \notin WidgetIds(widgets')
            /\ id \notin LayoutIds(layouts'.lg) \cup LayoutIds(layouts'.md) \cup LayoutIds(layouts'.sm)
            /\ \A k \in 1..Len(widgets) : widgets[k].id # id => widgets[k] \in Range(widgets')
            /\ removeWidgetFrom(widgets', id) = widgets'
            /\ removeLayoutFrom(layouts', id) = layouts'
            /\ (id \notin WidgetIds(widgets) \cup LayoutIds(layouts.lg)
                         \cup LayoutIds(layouts.md) \cup LayoutIds(layouts.sm)
                    => widgets' = widgets /\ layouts' = layouts)
            /\ last'.result # "threw"]_vars

\* C9 witness: a removeWidget call that changed nothing, on a dashboard from which
\* a built-in widget had been removed and that still holds others.
C9_Witness ==
    /\ last.op = "removeWidget" /\ last.result = "unchanged"
    /\ <<"portfolio-summary">> \notin WidgetIds(widgets)
    /\ widgets # <<>>

\* C3: a live mutation (addWidget, removeWidget, updateWidgetSettings,
\* updateLayouts, resetToDefaults) leaves the saved views, and so the stored
\* layouts and widgets of each, as they were.
C3_LiveMutationKeepsSnapshots ==
    [][LiveMutation =>
            /\ Len(savedViews') = Len(savedViews)
            /\ \A k \in 1..Len(savedViews) :
                    /\ savedViews'[k].id = savedViews[k].id
                    /\ savedViews'[k].config.layouts = savedViews[k].config.layouts
                    /\ savedViews'[k].config.widgets = savedViews[k].config.widgets]_vars

\* C3 witness: a view was saved and is the active one, an added widget it holds has
\* since been changed on the live dashboard, and the live layouts differ from the
\* stored ones.
C3_Witness ==
    /\ last.op \in {"updateWidgetSettings", "updateLayouts", "removeWidget"}
    /\ last.result = "changed"
    /\ \E k \in 1..Len(savedViews) :
            /\ savedViews[k].id = activeViewId
            /\ savedViews[k].config.layouts # layouts
            /\ savedViews[k].config.widgets # widgets
            /\ \E j \in 1..Len(savedViews[k].config.widgets) :
                    ~IsBuiltIn(savedViews[k].config.widgets[j].id)

----------------------------------------------------------------------------
(* Claims about the saved views *)

DefaultViews(views) == {k \in 1..Len(views) : views[k].isDefault}

\* C2: in every state reached by saveView, loadView, deleteView and setDefaultView
\* (with any id), exactly one saved view is the default when there are saved views,
\* and none when there are none.
C2_ExactlyOneDefault ==
    Cardinality(DefaultViews(savedViews)) = IF savedViews = <<>> THEN 0 ELSE 1

\* C10: deleteView of the default view, when another view remains, leaves exactly
\* one default, the first remaining view; deleteView of a view that is not the
\* default changes the isDefault flag of no view.
C10_DeleteViewKeepsOneDefault ==
    [][\A id \in ViewIds : deleteView(id) =>
            LET k == findView(id)
                rest == Filter(savedViews, LAMBDA v : v.id # id)
            IN  /\ (savedViews[k].isDefault /\ rest # <<>>
                        => DefaultViews(savedViews') = {1} /\ savedViews'[1].id = rest[1].id)
                /\ (~savedViews[k].isDefault => savedViews' = rest)]_vars

\* C11: a saveView call that saves appends one view whose isDefault is true exactly
\* when savedViews was empty before the call, leaves every already saved view
\* (its isDefault flag included) as it was, and sets activeViewId to the new id.
C11_SaveViewDefaultOnlyWhenFirst ==
    [][\A n \in ViewNameInputs : (saveView(n) /\ last'.result = "changed") =>
            LET m == Len(savedViews)
            IN  /\ Len(savedViews') = m + 1
                /\ savedViews'[m + 1].isDefault = (savedViews = <<>>)
                /\ \A k \in 1..m : /\ savedViews'[k].id = savedViews[k].id
                                    /\ savedViews'[k].isDefault = savedViews[k].isDefault
                /\ savedViews'[m + 1].id \notin ViewIds
                /\ activeViewId' = savedViews'[m + 1].id]_vars

\* a second saveView has added a non-default view after the default first one
C11_Witness ==
    /\ last.op = "saveView" /\ last.result = "changed"
    /\ Len(savedViews) = 2
    /\ savedViews[1].isDefault /\ ~savedViews[2].isDefault
    /\ activeViewId = savedViews[2].id

----------------------------------------------------------------------------
(* Claims about the portfolio slice *)

HoldingIdsOf(hs) == {hs[k].id : k \in 1..Len(hs)}

RejectedName(n) ==
    \/ Trim(n) = <<>>
    \/ Len(Trim(n)) > 50
    \/ \E k \in 1..Len(Trim(n)) : Trim(n)[k] \notin Letters \cup Digits \cup {" ", "_", "-"}

\* C5: createPortfolio(n) throws, leaving portfolios and activePortfolioId as they
\* were, exactly when trim(n) is empty, longer than 50 characters or holds a
\* character outside letters, digits, space, underscore and hyphen; otherwise it
\* appends a portfolio named trim(n).
C5_CreateThrowsIffRejected ==
    [][createPortfolio(input, "USD") =>
            /\ (last'.result = "threw") <=> RejectedName(input)
            /\ last'.result = "threw"
                    => portfolios' = portfolios /\ activePortfolioId' = activePortfolioId
            /\ last'.result # "threw"
                    => /\ Len(portfolios') = Len(portfolios) + 1
                       /\ SubSeq(portfolios', 1, Len(portfolios)) = portfolios
                       /\ portfolios'[Len(portfolios')].name = Trim(input)]_vars

\* C6: deletePortfolio(id) of the active portfolio makes the first remaining
\* portfolio the active one (an id that is in portfolios), or null when none remains;
\* deletePortfolio of another id leaves activePortfolioId as it was.
C6_DeletePortfolioMovesActive ==
    [][\A id \in PortfolioIdInputs : deletePortfolio(id) =>
            LET rest == Filter(portfolios, LAMBDA p : p.id # id)
            IN  /\ portfolios' = rest
                /\ (id = activePortfolioId /\ rest # <<>>
                        => /\ activePortfolioId' = rest[1].id
                           /\ activePortfolioId' \in {portfolios'[k].id : k \in 1..Len(portfolios')})
                /\ (id = activePortfolioId /\ rest = <<>> => activePortfolioId' = Null)
                /\ (id # activePortfolioId => activePortfolioId' = activePortfolioId)]_vars

\* C6 witness: the active portfolio was deleted, another remains and is now active.
C6_Witness ==
    /\ last.op = "deletePortfolio" /\ last.wasActive
    /\ portfolios # <<>>
    /\ activePortfolioId = portfolios[1].id

\* C7: a createPortfolio call that makes a portfolio makes it the active one exactly
\* when activePortfolioId was null, and leaves activePortfolioId as it was otherwise.
C7_CreateActivatesOnlyWhenNoneActive ==
    [][\A n \in PortfolioNameInputs : (createPortfolio(n, "USD") /\ last'.result # "threw") =>
            LET new == portfolios'[Len(portfolios')]
            IN  /\ new.id \notin PortfolioIds
                /\ (activePortfolioId' = new.id) <=> (activePortfolioId = Null)
                /\ (activePortfolioId # Null => activePortfolioId' = activePortfolioId)]_vars

\* C7 witness: a second portfolio was made while the first was active, and the first
\* is still the active one.
C7_Witness ==
    /\ last.op = "createPortfolio" /\ last.result = "changed"
    /\ Len(portfolios) = 2
    /\ activePortfolioId = portfolios[1].id

----------------------------------------------------------------------------
(* The widget grid (components/dashboard/WidgetGrid.tsx) *)

Breakpoints == {"lg", "md", "sm"}

\* the fields of a WidgetLayout that the grid's LayoutItem is converted to
convertLayout(item) ==
    [f \in {"i", "x", "y", "w", "h", "minW", "minH", "static"} \cap DOMAIN item |-> item[f]]

areLayoutsEqual(a, b) ==
    IF Len(a) # Len(b) THEN FALSE
    ELSE \A k \in 1..Len(a) :
            /\ a[k].i = b[k].i
            /\ a[k].x = b[k].x
            /\ a[k].y = b[k].y
            /\ a[k].w = b[k].w
            /\ a[k].h = b[k].h

\* onLayoutChange: allLayouts holds an array for some of the breakpoints
handleLayoutChange(allLayouts) ==
    LET currentLayouts == layoutsRef
        convertedLayouts ==
            [bp \in Breakpoints |->
                IF bp \in DOMAIN allLayouts
                THEN Map(allLayouts[bp], convertLayout)
                ELSE currentLayouts[bp]]
        hasChanged ==
            \/ ~areLayoutsEqual(convertedLayouts.lg, currentLayouts.lg)
            \/ ~areLayoutsEqual(convertedLayouts.md, currentLayouts.md)
            \/ ~areLayoutsEqual(convertedLayouts.sm, currentLayouts.sm)
    IN  IF hasChanged
        THEN updateLayouts(convertedLayouts)
        ELSE /\ last' = [op |-> "handleLayoutChange", result |-> "unchanged"]
             /\ UNCHANGED <<dashboardVars, portfolioVars, uiVars, nextUuid, now, input, envVars>>

\* useEffect(() => { layoutsRef.current = layouts }, [layouts]): runs after the
\* render that follows a change of the stored layouts
syncLayoutsRef ==
    /\ layoutsRef # layouts
    /\ layoutsRef' = layouts
    /\ last' = [op |-> "useEffect", result |-> "changed"]
    /\ UNCHANGED <<storeVars, storageVars, fetchVars, routeVars, searchVars>>

\* a layout as the grid emits it: its own LayoutItem, with the fields it adds
Emitted(arr) == [k \in 1..Len(arr) |-> arr[k] @@ [moved |-> FALSE]]

\* the events of the grid, computed from the layouts it was rendered with: these
\* unchanged, the first lg item dragged, and each for the current breakpoint alone
GridEvents ==
    LET same == [bp \in Breakpoints |-> Emitted(layouts[bp])]
        moved == [bp \in Breakpoints |-> Emitted(MovedLayouts[bp])]
    IN  {same, moved, [lg |-> same.lg], [lg |-> moved.lg]}

NextGrid ==
    \/ \E e \in GridEvents : handleLayoutChange(e)
    \/ syncLayoutsRef
    \/ \E a \in AddWidgetInputs : nextUuid <= MaxUuid /\ addWidget(a[1], a[2])
    \/ \E id \in AddedWidgetIdInputs : removeWidget(id)
    \/ resetToDefaults

SpecGrid == Init /\ [][NextGrid]_vars

\* the arrays differ in length or in some position's i, x, y, w or h
LayoutArraysDiffer(a, b) ==
    \/ Len(a) # Len(b)
    \/ \E k \in 1..Len(a) : \E f \in {"i", "x", "y", "w", "h"} : a[k][f] # b[k][f]

\* C12: for every layout-change event, handleLayoutChange calls updateLayouts if
\* and only if, for at least one of lg, md and sm, the emitted array differs from
\* the layouts stored in the store in length or in some position's i, x, y, w or h;
\* an event whose arrays equal the stored ones causes no store write.
C12_CommitOnlyOnChange ==
    [][\A e \in GridEvents : handleLayoutChange(e) =>
            (last'.op = "updateLayouts"
                <=> \E bp \in DOMAIN e : LayoutArraysDiffer(e[bp], layouts[bp]))]_vars

----------------------------------------------------------------------------
(* The storage wrapper (createSafeStorage in stores/index.ts) *)

\* a Record<string, string> is a function from some of the names; a value is a
\* 1-tuple, so that it can be compared with null
Put(m, name, value) == [n \in DOMAIN m \cup {name} |-> IF n = name THEN value ELSE m[n]]
Delete(m, name) == [n \in DOMAIN m \ {name} |-> m[n]]
\* m[name] ?? null
Lookup(m, name) == IF name \in DOMAIN m THEN m[name] ELSE Null

\* the test of the catch block of setItem, never true
isQuotaExceededNever(outcome) == FALSE

\* error instanceof DOMException && error.name === "QuotaExceededError"
isQuotaExceeded(outcome) == outcome = "QuotaExceededError"

\* what getItem(name) returns; throws: localStorage.getItem throws
getItemResult(name, throws) ==
    IF usingFallback THEN Lookup(memoryFallback, name)
    ELSE IF ~throws THEN Lookup(localStorageItems, name)
    ELSE Lookup(memoryFallback, name)

getItem(name, throws) ==
    /\ last' = [op |-> "getItem", result |-> "returned", name |-> name,
                value |-> getItemResult(name, throws)]
    /\ UNCHANGED <<storeVars, componentVars, storageVars, fetchVars, routeVars, searchVars>>

\* outcome: what localStorage.setItem does when it is called
setItem(name, value, outcome) ==
    /\ IF usingFallback
       THEN /\ memoryFallback' = Put(memoryFallback, name, value)
            /\ UNCHANGED <<usingFallback, localStorageItems>>
       ELSE IF outcome = "ok"
       THEN /\ localStorageItems' = Put(localStorageItems, name, value)
            /\ UNCHANGED <<usingFallback, memoryFallback>>
       ELSE IF isQuotaExceeded(outcome)
       THEN /\ usingFallback' = TRUE
            /\ memoryFallback' = Put(memoryFallback, name, value)
            /\ UNCHANGED localStorageItems
       ELSE UNCHANGED storageVars
    /\ last' = [op |-> "setItem", result |-> "returned", name |-> name, value |-> value]
    /\ UNCHANGED <<storeVars, componentVars, fetchVars, routeVars, searchVars>>

\* throws: localStorage.removeItem throws
removeItem(name, throws) ==
    /\ IF usingFallback \/ throws
       THEN /\ memoryFallback' = Delete(memoryFallback, name)
            /\ UNCHANGED <<usingFallback, localStorageItems>>
       ELSE /\ localStorageItems' = Delete(localStorageItems, name)
            /\ UNCHANGED <<usingFallback, memoryFallback>>
    /\ last' = [op |-> "removeItem", result |-> "returned", name |-> name, value |-> Null]
    /\ UNCHANGED <<storeVars, componentVars, fetchVars, routeVars, searchVars>>

\* the name the store is persisted under, and another one
StorageNames == {"etf-dashboard-storage", "other"}
\* two serialized states
StorageValues == {<<"v1">>, <<"v2">>}
\* localStorage.setItem stores the value, or throws: the storage is full, or
\* access to it is denied
SetItemOutcomes == {"ok", "QuotaExceededError", "SecurityError"}

NextStorage ==
    \/ \E n \in StorageNames, v \in StorageValues, o \in SetItemOutcomes : setItem(n, v, o)
    \/ \E n \in StorageNames, t \in BOOLEAN : getItem(n, t)
    \/ \E n \in StorageNames, t \in BOOLEAN : removeItem(n, t)

SpecStorage == Init /\ [][NextStorage]_vars

\* C13: once localStorage.setItem has raised QuotaExceededError the wrapper stays
\* on the in-memory map and leaves localStorage alone; no setItem throws; the
\* setItem that met the error and every later one is kept in memory, so that
\* getItem of that name returns its value, whatever localStorage does; and a
\* setItem or getItem of a name leaves what getItem returns for the other names.
C13_QuotaFallbackKeepsWrites ==
    [][/\ usingFallback => (usingFallback' /\ localStorageItems' = localStorageItems)
       /\ \A n \in StorageNames, v \in StorageValues, o \in SetItemOutcomes :
            setItem(n, v, o) =>
                /\ last'.result = "returned"
                /\ (usingFallback \/ o = "QuotaExceededError") =>
                        /\ usingFallback'
                        /\ localStorageItems' = localStorageItems
                        /\ \A t \in BOOLEAN : getItemResult(n, t)' = v
                /\ usingFallback =>
                        \A m \in StorageNames \ {n}, t \in BOOLEAN :
                            getItemResult(m, t)' = getItemResult(m, t)
       /\ \A n \in StorageNames, t \in BOOLEAN :
            (usingFallback /\ getItem(n, t)) =>
                /\ last'.value = Lookup(memoryFallback, n)
                /\ memoryFallback' = memoryFallback]_vars

\* after the fallback began, getItem has returned a value written since, which is
\* not the one localStorage holds under that name
C13_Witness ==
    /\ usingFallback
    /\ last.op = "getItem"
    /\ last.value = <<"v2">>
    /\ Lookup(localStorageItems, last.name) = <<"v1">>

\* C14: if localStorage.setItem throws any error, QuotaExceededError or another,
\* the written value is kept in memory and a later getItem of the same name
\* returns it.
C14_AnyErrorFallsBackToMemory ==
    [][\A n \in StorageNames, v \in StorageValues, o \in SetItemOutcomes \ {"ok"} :
            (~usingFallback /\ setItem(n, v, o)) =>
                \A t \in BOOLEAN : getItemResult(n, t)' = v]_vars

----------------------------------------------------------------------------
(* UI slice (stores/uiSlice.ts) *)

MAX_SYMBOL_LENGTH == 10

LowerCase ==
    <<"a","b","c","d","e","f","g","h","i","j","k","l","m",
      "n","o","p","q","r","s","t","u","v","w","x","y","z">>
UpperCase ==
    <<"A","B","C","D","E","F","G","H","I","J","K","L","M",
      "N","O","P","Q","R","S","T","U","V","W","X","Y","Z">>

\* the upper case of one character: a sequence, since that of the sharp s is "SS"
toUpperCaseChar(c) ==
    IF c = "ß" THEN <<"S", "S">>
    ELSE IF \E k \in 1..Len(LowerCase) : LowerCase[k] = c
    THEN << UpperCase[CHOOSE k \in 1..Len(LowerCase) : LowerCase[k] = c] >>
    ELSE <<c>>

\* String.prototype.toUpperCase
RECURSIVE toUpperCase(_)
toUpperCase(s) ==
    IF s = <<>> THEN <<>> ELSE toUpperCaseChar(Head(s)) \o toUpperCase(Tail(s))

\* /^[A-Z0-9.]+$/.test(s)
SYMBOL_REGEX_test(s) ==
    Len(s) >= 1 /\ \A k \in 1..Len(s) : s[k] \in Range(UpperCase) \cup Digits \cup {"."}

setTheme(t) ==
    /\ theme' = t
    /\ last' = [op |-> "setTheme", result |-> Outcome(theme, theme')]
    /\ UNCHANGED <<portfolioVars, dashboardVars, watchlist, nextUuid, now, input, envVars>>

toggleTheme ==
    /\ theme' = IF theme = "dark" THEN "light" ELSE "dark"
    /\ last' = [op |-> "toggleTheme", result |-> "changed"]
    /\ UNCHANGED <<portfolioVars, dashboardVars, watchlist, nextUuid, now, input, envVars>>

\* the three checks of addToWatchlist, in the code's order; "" when the symbol passes
addToWatchlistError(upperSymbol) ==
    IF upperSymbol = <<>> THEN "Symbol cannot be empty"
    ELSE IF Len(upperSymbol) > MAX_SYMBOL_LENGTH THEN "Symbol cannot exceed 10 characters"
    ELSE IF ~SYMBOL_REGEX_test(upperSymbol)
         THEN "Symbol can only contain uppercase letters, numbers, and dots"
    ELSE ""

\* the duplicate test of addToWatchlist, never true
onWatchlistNever(list, upperSymbol) == FALSE

\* state.watchlist.some((w) => w.symbol === upperSymbol)
onWatchlist(list, upperSymbol) == \E k \in 1..Len(list) : list[k].symbol = upperSymbol

addToWatchlist(symbol) ==
    LET upperSymbol == toUpperCase(Trim(symbol))
    IN  IF addToWatchlistError(upperSymbol) # ""
        THEN /\ last' = [op |-> "addToWatchlist", result |-> "threw"]
             /\ UNCHANGED <<storeVars, envVars>>
        ELSE /\ watchlist' = IF onWatchlist(watchlist, upperSymbol)
                             THEN watchlist
                             ELSE watchlist \o << [symbol |-> upperSymbol, addedAt |-> now] >>
             /\ last' = [op |-> "addToWatchlist", result |-> Outcome(watchlist, watchlist')]
             /\ UNCHANGED <<portfolioVars, dashboardVars, theme, nextUuid, now, input, envVars>>

removeFromWatchlist(symbol) ==
    LET upperSymbol == toUpperCase(symbol)
    IN  /\ watchlist' = Filter(watchlist, LAMBDA w : w.symbol # upperSymbol)
        /\ last' = [op |-> "removeFromWatchlist", result |-> Outcome(watchlist, watchlist')]
        /\ UNCHANGED <<portfolioVars, dashboardVars, theme, nextUuid, now, input, envVars>>

\* the symbols of the slice's unit tests, and symbols at the length limit: ten
\* letters, eleven letters, and ten characters whose upper case has eleven
SymbolInputs ==
    { <<"V","T","I">>, <<"v","t","i">>, <<" ","v","t","i","\t">>, <<"s","p","y">>,
      <<>>, <<" "," ">>, <<"V","T","I","$">>, <<"B","R","K",".","B">>,
      Repeat(MAX_SYMBOL_LENGTH), Repeat(MAX_SYMBOL_LENGTH + 1),
      <<"ß">> \o Repeat(MAX_SYMBOL_LENGTH - 1), <<"ß">> }

NextWatchlist ==
    \/ \E sym \in SymbolInputs : Len(watchlist) < MaxWatchlist /\ addToWatchlist(sym)
    \/ \E sym \in SymbolInputs : removeFromWatchlist(sym)

SpecWatchlist == Init /\ [][NextWatchlist]_vars

\* every symbol has 1 to 10 characters of A-Z, 0-9 and ".", and no two entries
\* have the same symbol
WatchlistWellFormed(list) ==
    /\ \A k \in 1..Len(list) :
            /\ Len(list[k].symbol) \in 1..10
            /\ \A j \in 1..Len(list[k].symbol) :
                    list[k].symbol[j] \in Range(UpperCase) \cup Digits \cup {"."}
    /\ \A j, k \in 1..Len(list) : list[j].symbol = list[k].symbol => j = k

\* C20: in every state reached by addToWatchlist and removeFromWatchlist calls,
\* every watchlist symbol is 1 to 10 characters of A-Z, 0-9 and "." and no two
\* entries have the same symbol; an add that is accepted leaves exactly one entry
\* with the trimmed, upper-cased symbol, so inputs that differ in case or
\* surrounding white space only give one entry; a rejected add throws and leaves
\* the watchlist as it was.
C20_WatchlistIsSetOfSymbols ==
    /\ []WatchlistWellFormed(watchlist)
    /\ [][\A sym \in SymbolInputs : addToWatchlist(sym) =>
            IF last'.result = "threw"
            THEN watchlist' = watchlist
            ELSE Cardinality({k \in 1..Len(watchlist') :
                    watchlist'[k].symbol = toUpperCase(Trim(sym))}) = 1]_vars

\* an add of a symbol that was on the list already has left the list as it was;
\* the list holds SS, the upper case of the sharp s
C20_Witness ==
    /\ last.op = "addToWatchlist" /\ last.result = "unchanged"
    /\ Len(watchlist) >= 2
    /\ \E k \in 1..Len(watchlist) : watchlist[k].symbol = <<"S", "S">>

----------------------------------------------------------------------------
(* Import and export (importState in stores/index.ts, DataManagement.tsx) *)

\* a parsed JSON value with its type: "array", "object", "string" or "null"
Json(kind, value) == [kind |-> kind, value |-> value]

\* JSON.stringify writes null for a number that is not finite; the null that
\* JSON.parse then puts where the number stood
JsonNullNumber == 0 - 1

\* JSON.parse(JSON.stringify(item)) of a layout item
stringifyItem(item) == [item EXCEPT !.y = IF @ = Infinity THEN JsonNullNumber ELSE @]
stringifyLayouts(l) == [bp \in DOMAIN l |-> Map(l[bp], stringifyItem)]
stringifyViews(views) ==
    Map(views, LAMBDA v : [v EXCEPT !.config.layouts = stringifyLayouts(@)])
stringifyId(id) == IF id = Null THEN Json("null", Null) ELSE Json("string", id)

\* the document handleExport downloads, as JSON.parse reads it back
exportData ==
    [version |-> 1,
     exportedAt |-> now,
     data |-> [portfolios |-> Json("array", portfolios),
               transactions |-> Json("array", transactions),
               layouts |-> Json("object", stringifyLayouts(layouts)),
               widgets |-> Json("array", widgets),
               savedViews |-> Json("array", stringifyViews(savedViews)),
               activePortfolioId |-> stringifyId(activePortfolioId),
               activeViewId |-> stringifyId(activeViewId),
               watchlist |-> Json("array", watchlist)]]

\* the downloaded file is kept in input
handleExport ==
    /\ input' = exportData
    /\ last' = [op |-> "handleExport", result |-> "changed"]
    /\ UNCHANGED <<portfolioVars, dashboardVars, uiVars, nextUuid, now, envVars>>

\* Array.isArray(data[f])
isArrayField(data, f) == f \in DOMAIN data /\ data[f].kind = "array"

\* importedState.layouts && Array.isArray(importedState.layouts.lg) && ... md ... sm
hasLayouts(data) ==
    /\ "layouts" \in DOMAIN data
    /\ data.layouts.kind = "object"
    /\ Breakpoints \subseteq DOMAIN data.layouts.value

\* the value importState gives a field: the imported one when it passes the
\* field's test, the current one otherwise
imported(data, f, ok, current) == IF ok THEN data[f].value ELSE current

importState(importedState) ==
    LET d == importedState
    IN  /\ portfolios' = imported(d, "portfolios", isArrayField(d, "portfolios"), portfolios)
        /\ activePortfolioId' = imported(d, "activePortfolioId",
                                        "activePortfolioId" \in DOMAIN d, activePortfolioId)
        /\ transactions' = imported(d, "transactions", isArrayField(d, "transactions"), transactions)
        /\ layouts' = imported(d, "layouts", hasLayouts(d), layouts)
        /\ widgets' = imported(d, "widgets", isArrayField(d, "widgets"), widgets)
        /\ savedViews' = imported(d, "savedViews", isArrayField(d, "savedViews"), savedViews)
        /\ activeViewId' = imported(d, "activeViewId", "activeViewId" \in DOMAIN d, activeViewId)
        /\ theme' = imported(d, "theme",
                            "theme" \in DOMAIN d /\ d.theme.value \in {"dark", "light"}, theme)
        /\ watchlist' = imported(d, "watchlist", isArrayField(d, "watchlist"), watchlist)
        /\ last' = [op |-> "importState",
                    result |-> Outcome(<<portfolioVars, dashboardVars, uiVars>>,
                                       <<portfolioVars', dashboardVars', uiVars'>>)]
        /\ UNCHANGED <<nextUuid, now, input, envVars>>

\* the storeData that handleImport builds from the document's data
storeData(data) ==
    [portfolios |-> imported(data, "portfolios", isArrayField(data, "portfolios"), <<>>),
     transactions |-> imported(data, "transactions", isArrayField(data, "transactions"), <<>>),
     layouts |-> imported(data, "layouts", hasLayouts(data), [lg |-> <<>>, md |-> <<>>, sm |-> <<>>]),
     widgets |-> imported(data, "widgets", isArrayField(data, "widgets"), <<>>),
     savedViews |-> imported(data, "savedViews", isArrayField(data, "savedViews"), <<>>),
     activePortfolioId |-> imported(data, "activePortfolioId", "activePortfolioId" \in DOMAIN data, Null),
     activeViewId |-> imported(data, "activeViewId", "activeViewId" \in DOMAIN data, Null),
     watchlist |-> imported(data, "watchlist", isArrayField(data, "watchlist"), <<>>),
     theme |-> "dark"]

\* reader.onload of handleImport: the document is checked, storeData is written
\* to localStorage under the store's name and the page is reloaded, after which
\* the store holds its initial state merged with the persisted one
handleImport(importData) ==
    IF ~({"version", "data"} \subseteq DOMAIN importData)
    THEN /\ last' = [op |-> "handleImport", result |-> "threw"]
         /\ UNCHANGED <<storeVars, envVars>>
    ELSE LET sd == storeData(importData.data)
         IN  /\ localStorageItems' = Put(localStorageItems, "etf-dashboard-storage", <<sd>>)
             /\ portfolios' = sd.portfolios
             /\ activePortfolioId' = sd.activePortfolioId
             /\ transactions' = sd.transactions
             /\ layouts' = sd.layouts
             /\ widgets' = sd.widgets
             /\ savedViews' = sd.savedViews
             /\ activeViewId' = sd.activeViewId
             /\ theme' = sd.theme
             /\ watchlist' = sd.watchlist
             /\ layoutsRef' = sd.layouts
             /\ usingFallback' = FALSE
             /\ memoryFallback' = <<>>
             /\ last' = [op |-> "handleImport", result |-> "changed"]
             /\ UNCHANGED <<nextUuid, now, input, fetchVars, routeVars, searchVars>>

\* the nine top-level fields, and those that must be arrays
ImportFields ==
    {"portfolios", "activePortfolioId", "transactions", "layouts", "widgets",
     "savedViews", "activeViewId", "theme", "watchlist"}
ArrayFields == {"portfolios", "transactions", "widgets", "savedViews", "watchlist"}

\* a document's data with every field present and well-typed
GoodData ==
    [portfolios |-> Json("array", << [id |-> <<"imported">>, name |-> <<"i">>, currency |-> "USD",
                                      createdAt |-> 0, holdings |-> <<>>] >>),
     activePortfolioId |-> Json("string", <<"imported">>),
     transactions |-> Json("array", << [id |-> <<"imported-t">>, holdingId |-> <<"imported-h">>,
                                        type |-> "BUY", shares |-> 1] >>),
     layouts |-> Json("object", TestLayouts),
     widgets |-> Json("array", << Widget(<<"test">>, "watchlist", EmptySettings, 0) >>),
     savedViews |-> Json("array", << [id |-> <<"imported-v">>, name |-> <<"v">>, isDefault |-> TRUE,
                                      createdAt |-> 0, updatedAt |-> 0,
                                      config |-> [layouts |-> TestLayouts,
                                                  widgets |-> <<>>,
                                                  theme |-> "dark",
                                                  accentColor |-> "emerald"]] >>),
     activeViewId |-> Json("string", <<"imported-v">>),
     theme |-> Json("string", "light"),
     watchlist |-> Json("array", << [symbol |-> <<"Q","Q","Q">>, addedAt |-> 0] >>)]

\* the data without the field f
Without(data, f) == [g \in DOMAIN data \ {f} |-> data[g]]

\* the data with a value of the wrong type in the field f: the string "" for an
\* array, layouts that lack sm
IllTyped(data, f) ==
    [data EXCEPT ![f] = IF f = "layouts"
                        THEN Json("object", [lg |-> TestLayouts.lg, md |-> TestLayouts.md])
                        ELSE Json("string", <<>>)]

\* the imported data: complete, empty, one field absent, one field ill-typed
DataInputs ==
    {GoodData, [f \in {} |-> Null]}
        \cup {Without(GoodData, f) : f \in ImportFields}
        \cup {IllTyped(GoodData, f) : f \in ArrayFields \cup {"layouts"}}

\* the imported documents: those data in a backup file, a file without version,
\* and the file that handleExport has written, if any
DocInputs ==
    {[version |-> 1, exportedAt |-> 0, data |-> d] : d \in DataInputs}
        \cup {[data |-> GoodData]}
        \cup (IF input = Null THEN {} ELSE {input})

NextImport ==
    \/ nextUuid <= MaxImportUuid /\ createPortfolio(<<"p">>, "USD")
    \/ nextUuid <= MaxImportUuid /\ addWidget("watchlist", EmptySettings)
    \/ watchlist = <<>> /\ addToWatchlist(<<"V","T","I">>)
    \/ input = Null /\ handleExport
    \/ \E d \in DataInputs \cup (IF input = Null THEN {} ELSE {input.data}) : importState(d)
    \/ \E doc \in DocInputs : handleImport(doc)

SpecImport == Init /\ [][NextImport]_vars

\* the store's value of a top-level field
StoreField(f) ==
    CASE f = "portfolios" -> portfolios
      [] f = "activePortfolioId" -> activePortfolioId
      [] f = "transactions" -> transactions
      [] f = "layouts" -> layouts
      [] f = "widgets" -> widgets
      [] f = "savedViews" -> savedViews
      [] f = "activeViewId" -> activeViewId
      [] f = "theme" -> theme
      [] f = "watchlist" -> watchlist

\* the field is present with a value of its type
WellTyped(data, f) ==
    /\ f \in DOMAIN data
    /\ f \in ArrayFields => data[f].kind = "array"
    /\ f = "layouts" => {"lg", "md", "sm"} \subseteq DOMAIN data.layouts.value

\* what merge-by-field leaves in each field: the document's value when it is
\* present and well-typed, the store's own otherwise
MergedByField(data) ==
    \A f \in ImportFields :
        StoreField(f)' = IF WellTyped(data, f) THEN data[f].value ELSE StoreField(f)

\* C15: import is merge-by-field: a field that is absent from the imported
\* document keeps the store's value, a field that is present and well-typed
\* overwrites it, and an array-typed field that is not an array (or layouts that
\* lack one of lg, md, sm) is rejected for that field only, the other fields
\* being applied; by importState as by the import of a backup file.
C15_ImportMergesByField ==
    [][/\ \A d \in DataInputs : importState(d) => MergedByField(d)
       /\ \A doc \in DocInputs :
            (handleImport(doc) /\ last'.result = "changed") => MergedByField(doc.data)]_vars

\* C16: the document exported from a state holds that state's portfolios (with
\* their holdings), layouts and watchlist, and importing the exported document,
\* into any state and by either import, leaves these three equal to the document's.
C16_ExportImportRoundTrip ==
    [][/\ handleExport =>
            /\ input'.data.portfolios.value = portfolios
            /\ input'.data.layouts.value = layouts
            /\ input'.data.watchlist.value = watchlist
       /\ (input # Null /\ (importState(input.data) \/ handleImport(input))) =>
            /\ portfolios' = input.data.portfolios.value
            /\ layouts' = input.data.layouts.value
            /\ watchlist' = input.data.watchlist.value]_vars

----------------------------------------------------------------------------
(* The quote client (lib/api/client.ts) and ApiError (lib/api/errors.ts) *)

DEFAULT_TIMEOUT_MS == 10000
MAX_RETRIES == 3
BASE_DELAY_MS == 1000

ApiError(code, statusCode, retryable) ==
    [code |-> code, statusCode |-> statusCode, retryable |-> retryable]

\* ApiError.fromResponse with every error retryable
fromResponseAllRetryable(statusCode) ==
    ApiError("SERVER_ERROR", statusCode, TRUE)

\* ApiError.fromResponse(response)
fromResponse(statusCode) ==
    IF statusCode = 429 THEN ApiError("RATE_LIMIT", statusCode, TRUE)
    ELSE IF statusCode = 404 THEN ApiError("NOT_FOUND", statusCode, FALSE)
    ELSE IF statusCode >= 500 THEN ApiError("SERVER_ERROR", statusCode, TRUE)
    ELSE IF statusCode >= 400 THEN ApiError("VALIDATION_ERROR", statusCode, FALSE)
    ELSE ApiError("SERVER_ERROR", statusCode, FALSE)

\* a TIMEOUT error that is not retryable
timeoutNotRetryable == ApiError("TIMEOUT", 0, FALSE)

\* ApiError.networkError() and ApiError.timeout(): no status code
networkError == ApiError("NETWORK_ERROR", 0, TRUE)
timeout == ApiError("TIMEOUT", 0, TRUE)

\* response.ok
ok(statusCode) == statusCode \in 200..299

\* the delay of the wait, the same at every attempt
backoffDelayConstant(n) == BASE_DELAY_MS

\* BASE_DELAY_MS * Math.pow(2, attempt)
backoffDelay(n) == BASE_DELAY_MS * 2^n

\* the test for another retry, true at the last attempt as well
hasRetriesLeftAtLast(n) == n <= MAX_RETRIES

\* attempt < maxRetries
hasRetriesLeft(n) == n < MAX_RETRIES

\* what one fetchWithTimeout call gives: a response with its status, or the
\* error it throws
Responded(statusCode) == [kind |-> "response", status |-> statusCode, error |-> Null]
Threw(error) == [kind |-> "error", status |-> 0, error |-> error]

\* the error thrown inside the try block of fetchWithRetry, Null when the
\* response is returned
thrownInTry(outcome) ==
    IF outcome.kind = "error" THEN outcome.error
    ELSE IF outcome.status = 429 THEN fromResponse(outcome.status)
    ELSE IF outcome.status >= 500 THEN fromResponse(outcome.status)
    ELSE Null

\* fetchQuotes(symbols) / searchSymbols(query): empty is symbols.length === 0,
\* or a query that is blank once trimmed
startCall(fn, empty) ==
    /\ fetchPc \in {"idle", "done"}
    /\ attempt' = 0
    /\ calls' = 0
    /\ waits' = <<>>
    /\ lastError' = Null
    /\ IF empty
       THEN /\ fetchPc' = "done"
            /\ settled' = [status |-> "resolved", error |-> Null]
       ELSE /\ fetchPc' = "fetching"
            /\ settled' = Null
    /\ last' = [op |-> fn, result |-> IF empty THEN "returned" ELSE "pending"]
    /\ UNCHANGED <<storeVars, componentVars, storageVars, routeVars, searchVars>>

\* one pass of the loop of fetchWithRetry, from the fetchWithTimeout call to the
\* return, the throw or the start of the wait; and, when the response is
\* returned, the rest of fetchQuotes / searchSymbols
fetchAttempt(outcome) ==
    LET error == thrownInTry(outcome)
    IN  /\ fetchPc = "fetching"
        /\ calls' = calls + 1
        /\ IF error = Null
           THEN /\ fetchPc' = "done"
                /\ settled' = IF ok(outcome.status)
                              THEN [status |-> "resolved", error |-> Null]
                              ELSE [status |-> "rejected", error |-> fromResponse(outcome.status)]
                /\ UNCHANGED <<attempt, waits, lastError>>
           ELSE /\ lastError' = error
                /\ IF error.retryable /\ hasRetriesLeft(attempt)
                   THEN /\ fetchPc' = "waiting"
                        /\ waits' = Append(waits, backoffDelay(attempt))
                        /\ UNCHANGED <<attempt, settled>>
                   ELSE /\ fetchPc' = "done"
                        /\ settled' = [status |-> "rejected", error |-> error]
                        /\ UNCHANGED <<attempt, waits>>
        /\ last' = [op |-> "fetchWithRetry", result |-> fetchPc']
        /\ UNCHANGED <<storeVars, componentVars, storageVars, routeVars, searchVars>>

\* the setTimeout of the wait fires: continue, attempt++, and the loop test
retryTimer ==
    /\ fetchPc = "waiting"
    /\ attempt' = attempt + 1
    /\ IF attempt + 1 <= MAX_RETRIES
       THEN /\ fetchPc' = "fetching"
            /\ UNCHANGED settled
       ELSE /\ fetchPc' = "done"
            /\ settled' = [status |-> "rejected", error |-> lastError]
    /\ last' = [op |-> "setTimeout", result |-> fetchPc']
    /\ UNCHANGED <<storeVars, componentVars, storageVars, routeVars, searchVars, calls, waits, lastError>>

\* what fetch(url, {signal}) would do by itself: respond with a status after ms
\* milliseconds, or fail after ms milliseconds (a TypeError)
RawFetch(statusCode, ms, failed) == [status |-> statusCode, ms |-> ms, failed |-> failed]

\* fetchWithTimeout: the timer aborts a fetch that is still pending after
\* timeoutMs, fetch then throws an AbortError, which becomes ApiError.timeout();
\* any other throw becomes ApiError.networkError(); a response is returned
fetchWithTimeout(raw) ==
    IF raw.ms > DEFAULT_TIMEOUT_MS THEN Threw(timeout)
    ELSE IF raw.failed THEN Threw(networkError)
    ELSE Responded(raw.status)

\* the fetches: responses (200, 304, 4xx, 429, 5xx) and a failure within the
\* timeout, a response and a failure that would come after it
RawFetches ==
    {RawFetch(c, 100, FALSE) : c \in {200, 304, 400, 403, 404, 429, 500, 502, 503}}
        \cup {RawFetch(0, 100, TRUE), RawFetch(200, 10001, FALSE), RawFetch(0, 10001, TRUE)}

\* the outcomes of one fetchWithTimeout call: a response, a timeout, a network
\* error
FetchOutcomes == {fetchWithTimeout(raw) : raw \in RawFetches}

NextFetch ==
    \/ \E fn \in {"fetchQuotes", "searchSymbols"}, empty \in BOOLEAN : startCall(fn, empty)
    \/ \E o \in FetchOutcomes : fetchAttempt(o)
    \/ retryTimer

SpecFetch == Init /\ [][NextFetch]_vars

\* a fetch settles, since fetchWithTimeout aborts it after DEFAULT_TIMEOUT_MS,
\* and a timer that was set fires
SpecFetchLive ==
    SpecFetch /\ WF_vars(\E o \in FetchOutcomes : fetchAttempt(o)) /\ WF_vars(retryTimer)

\* the response is a retryable failure: HTTP 429 or a status of 500 and above
RetryableResponse(o) == o.kind = "response" /\ (o.status = 429 \/ o.status >= 500)

\* C17: k retryable failures (429 or a status >= 500) followed by a 200, k <= 3,
\* resolve the call after exactly k + 1 network calls, and the wait before the
\* j-th retry is 1000 * 2^(j-1) ms: each such failure before the last attempt
\* starts that wait, after which the next attempt is made, a 200 resolves the
\* call at once, and a resolved call has made the waits 1000, 2000, 4000 in order.
C17_RetriesThenSucceeds ==
    /\ [](fetchPc = "done" /\ calls > 0 /\ settled.status = "resolved" =>
            /\ calls <= 4
            /\ waits = SubSeq(<<1000, 2000, 4000>>, 1, calls - 1))
    /\ [][\A o \in FetchOutcomes : fetchAttempt(o) =>
            /\ (o.kind = "response" /\ o.status = 200) =>
                    /\ fetchPc' = "done"
                    /\ settled'.status = "resolved"
                    /\ calls' = attempt + 1
            /\ (RetryableResponse(o) /\ attempt < 3) =>
                    /\ fetchPc' = "waiting"
                    /\ waits' = Append(waits, 1000 * 2^attempt)]_vars
    /\ [][retryTimer =>
            fetchPc' = "fetching" /\ attempt' = attempt + 1 /\ calls' = calls]_vars

\* three failures, the last a 500, then a 200: four calls, waits 1000, 2000, 4000
C17_Witness ==
    /\ fetchPc = "done"
    /\ settled.status = "resolved"
    /\ calls = 4
    /\ waits = <<1000, 2000, 4000>>
    /\ lastError.statusCode = 500

\* C18: one call makes at most MAX_RETRIES + 1 = 4 network calls and then
\* resolves or rejects, whatever the outcomes of the fetches; when every attempt
\* fails retryably it makes exactly 4 calls, waits after the first three only,
\* and rejects with the ApiError of the last attempt.
C18_RetryIsBoundedAndSettles ==
    /\ [](calls <= 4 /\ Len(waits) <= 3)
    /\ [](fetchPc = "done" /\ calls > 0 /\ settled.status = "rejected" /\ settled.error.retryable =>
            calls = 4 /\ Len(waits) = 3 /\ settled.error = lastError)
    /\ [][\A o \in FetchOutcomes :
            (fetchAttempt(o) /\ attempt = 3 /\ (RetryableResponse(o) \/ o.kind = "error")) =>
                /\ fetchPc' = "done"
                /\ settled'.status = "rejected"
                /\ settled'.error.statusCode = o.status
                /\ o.kind = "error" => settled'.error = o.error
                /\ waits' = waits]_vars
    /\ (fetchPc \in {"fetching", "waiting"}) ~> (fetchPc = "done")

\* four attempts have failed, the last with a 429, and the call has rejected
C18_Witness ==
    /\ fetchPc = "done"
    /\ settled.status = "rejected"
    /\ settled.error.code = "RATE_LIMIT"
    /\ calls = 4
    /\ Len(waits) = 3

\* C19: a 4xx response other than 429 is never retried: the call rejects with an
\* ApiError of that status whose retryable flag is false, with no further network
\* call and no wait; when it is the first response, after exactly one call.
C19_ClientErrorIsNotRetried ==
    [][\A o \in FetchOutcomes :
            (fetchAttempt(o) /\ o.kind = "response" /\ o.status \in (400..499) \ {429}) =>
                /\ fetchPc' = "done"
                /\ settled'.status = "rejected"
                /\ settled'.error.statusCode = o.status
                /\ ~settled'.error.retryable
                /\ waits' = waits
                /\ calls' = calls + 1
                /\ attempt = 0 => (calls' = 1 /\ waits' = <<>>)]_vars

\* a first response of 404 has rejected the call after one network call
C19_Witness ==
    /\ fetchPc = "done"
    /\ settled.status = "rejected"
    /\ settled.error.statusCode = 404
    /\ calls = 1
    /\ waits = <<>>

\* C25: a fetch still pending after the 10 s timeout is aborted and counts as a
\* failed attempt with the retryable TIMEOUT error: before the last attempt it
\* starts the wait a 5xx starts (1000 * 2^attempt ms) and no more than 4 calls
\* are made, at the last attempt the call rejects with the TIMEOUT error.
C25_TimeoutIsRetried ==
    [][\A raw \in RawFetches :
            (raw.ms > DEFAULT_TIMEOUT_MS /\ fetchAttempt(fetchWithTimeout(raw))) =>
                /\ lastError'.code = "TIMEOUT" /\ lastError'.retryable
                /\ calls' = calls + 1 /\ calls' <= MAX_RETRIES + 1
                /\ attempt < 3 =>
                        /\ fetchPc' = "waiting"
                        /\ waits' = Append(waits, 1000 * 2^attempt)
                        /\ settled' = settled
                /\ attempt = 3 =>
                        /\ fetchPc' = "done"
                        /\ waits' = waits
                        /\ settled'.status = "rejected"
                        /\ settled'.error.code = "TIMEOUT"]_vars

\* four attempts have timed out and the call has rejected with the TIMEOUT error
C25_Witness ==
    /\ fetchPc = "done"
    /\ settled.status = "rejected"
    /\ settled.error.code = "TIMEOUT"
    /\ calls = 4
    /\ waits = <<1000, 2000, 4000>>

----------------------------------------------------------------------------
(* Removing from the watchlist *)

\* C27: removeFromWatchlist normalizes its argument as addToWatchlist does: for
\* every string s that addToWatchlist accepts, lower case and surrounding
\* whitespace included, removeFromWatchlist(s) leaves no entry for the symbol
\* that addToWatchlist(s) makes, so that add(s) then remove(s) removes it.
C27_RemoveNormalizesLikeAdd ==
    [][\A sym \in SymbolInputs :
            (removeFromWatchlist(sym) /\ addToWatchlistError(toUpperCase(Trim(sym))) = "") =>
                ~onWatchlist(watchlist', toUpperCase(Trim(sym)))]_vars

----------------------------------------------------------------------------
(* Importing and the consistency between fields *)

\* every breakpoint lays out exactly the widgets, and the active portfolio, if
\* any, is one of the portfolios
CrossFieldConsistent(ps, active, ls, ws) ==
    /\ \A b \in Breakpoints : LayoutIds(ls[b]) = WidgetIds(ws)
    /\ active = Null \/ \E k \in 1..Len(ps) : ps[k].id = active

\* C29: importState keeps the consistency between fields: from a store whose
\* layouts hold exactly the widget ids at every breakpoint and whose
\* activePortfolioId is null or the id of a portfolio, importState of any
\* document, accepted in whole or in part, leaves such a store.
C29_ImportKeepsCrossFieldConsistency ==
    [][\A d \in DataInputs :
            (importState(d) /\ CrossFieldConsistent(portfolios, activePortfolioId, layouts, widgets)) =>
                CrossFieldConsistent(portfolios', activePortfolioId', layouts', widgets')]_vars

----------------------------------------------------------------------------
(* The holdings specification: updateHolding with any Partial<Holding> *)

\* the updates argument: a field of the form, the id of a holding of some
\* portfolio, a createdAt
PartialHoldingInputs ==
    {[shares |-> 50], [createdAt |-> 7]} \cup {[id |-> h] : h \in AllHoldingIds}

NextHoldings ==
    \/ /\ nextUuid <= MaxHoldingUuid /\ Len(portfolios) < MaxPortfolios
       /\ createPortfolio(<<"p">>, "USD")
    \/ \E id \in PortfolioIdInputs : deletePortfolio(id)
    \/ \E id \in PortfolioIdInputs : setActivePortfolio(id)
    \/ \E h \in HoldingInputs :
            /\ nextUuid <= MaxHoldingUuid /\ Len(ActiveHoldings) < MaxHoldings
            /\ addHolding(h)
    \/ \E id \in HoldingIdInputs, u \in PartialHoldingInputs : updateHolding(id, u)
    \/ \E id \in HoldingIdInputs : deleteHolding(id)

SpecHoldings == Init /\ [][NextHoldings]_vars

\* the places <<k, j>> where a holding with this id stands: portfolio k, position j
HoldingPlaces(h) ==
    {<<k, j>> \in (1..Len(portfolios)) \X (1..MaxHoldings + 1) :
        j <= Len(portfolios[k].holdings) /\ portfolios[k].holdings[j].id = h}

\* C21: in every state reached by createPortfolio, deletePortfolio,
\* setActivePortfolio, addHolding, updateHolding (with any partial update) and
\* deleteHolding, each holding id occurs in the holdings of exactly one portfolio,
\* and there exactly once.
C21_HoldingIdsAreUnique ==
    \A h \in AllHoldingIds : Cardinality(HoldingPlaces(h)) = 1

\* C22: updateHolding(id, partial) changes the createdAt and the id of no holding,
\* whatever the partial update; it changes only the holding with that id in the
\* active portfolio, and when the active portfolio has no such holding the
\* portfolios are as they were.
C22_UpdateHoldingKeepsIdentity ==
    [][\A id \in HoldingIdInputs, u \in PartialHoldingInputs : updateHolding(id, u) =>
            /\ Len(portfolios') = Len(portfolios)
            /\ \A k \in 1..Len(portfolios) :
                    /\ Len(portfolios'[k].holdings) = Len(portfolios[k].holdings)
                    /\ \A j \in 1..Len(portfolios[k].holdings) :
                            LET old == portfolios[k].holdings[j]
                                new == portfolios'[k].holdings[j]
                            IN  /\ new.id = old.id
                                /\ new.createdAt = old.createdAt
                                /\ (portfolios[k].id # activePortfolioId \/ old.id # id)
                                        => new = old
            /\ (\A j \in 1..Len(ActiveHoldings) : ActiveHoldings[j].id # id)
                    => portfolios' = portfolios]_vars

\* C28: deleteHolding(id) with an id that names no holding of the active
\* portfolio (one of another portfolio, or no portfolio is active) leaves the
\* whole store as it was, the transactions included.
C28_DeleteHoldingOnlyInActive ==
    [][\A id \in HoldingIdInputs :
            (deleteHolding(id) /\ \A j \in 1..Len(ActiveHoldings) : ActiveHoldings[j].id # id)
                => (portfolios' = portfolios /\ transactions' = transactions)]_vars

----------------------------------------------------------------------------
(* Loading views: the live dashboard, saved views, and imported views *)

\* saved views as importState can bring them: one whose layouts lack sm, one
\* whose config lacks widgets
IncompleteViews ==
    << [id |-> <<"no-sm">>, name |-> <<"a">>, isDefault |-> TRUE, createdAt |-> 0, updatedAt |-> 0,
        config |-> [layouts |-> [lg |-> TestLayouts.lg, md |-> TestLayouts.md],
                    widgets |-> <<>>, theme |-> "dark", accentColor |-> "emerald"]],
       [id |-> <<"no-widgets">>, name |-> <<"b">>, isDefault |-> FALSE, createdAt |-> 0, updatedAt |-> 0,
        config |-> [layouts |-> TestLayouts, theme |-> "dark", accentColor |-> "emerald"]] >>

ViewDataInputs == {[savedViews |-> Json("array", IncompleteViews)]}

\* ids of loadView calls: those of the saved views as well
LoadIdInputs == ViewIdInputs \cup ViewIds

NextLoad ==
    \/ LiveMutation
    \/ \E n \in ViewNameInputs :
            nextUuid <= MaxUuid /\ Len(savedViews) < MaxDashViews /\ saveView(n)
    \/ \E id \in LoadIdInputs : loadView(id)
    \/ \E d \in ViewDataInputs : importState(d)

SpecLoad == Init /\ [][NextLoad]_vars

\* the saved views with this id whose config has layouts with lg, md and sm, and
\* a widgets array
CompleteViews(id) ==
    {k \in 1..Len(savedViews) :
        /\ savedViews[k].id = id
        /\ {"layouts", "widgets"} \subseteq DOMAIN savedViews[k].config
        /\ {"lg", "md", "sm"} \subseteq DOMAIN savedViews[k].config.layouts}

\* C23: loadView(id) of a saved view whose config has lg, md, sm and a widgets
\* array makes the live layouts and widgets equal to those of the view's config,
\* whatever the live state was, and sets activeViewId to id; loadView of an
\* unknown id, or of a view whose config lacks one of these parts, leaves
\* layouts, widgets and activeViewId as they were.
C23_LoadViewRestoresSnapshot ==
    [][\A id \in LoadIdInputs : loadView(id) =>
            IF CompleteViews(id) # {}
            THEN \E k \in CompleteViews(id) :
                    /\ layouts' = savedViews[k].config.layouts
                    /\ widgets' = savedViews[k].config.widgets
                    /\ activeViewId' = id
            ELSE UNCHANGED <<layouts, widgets, activeViewId>>]_vars

\* a loadView has changed the live dashboard, which now equals the config of the
\* active view and holds a widget that addWidget made
C23_Witness ==
    /\ last.op = "loadView" /\ last.result = "changed"
    /\ \E k \in 1..Len(savedViews) :
            /\ savedViews[k].id = activeViewId
            /\ savedViews[k].config.layouts = layouts
            /\ savedViews[k].config.widgets = widgets
    /\ \E j \in 1..Len(widgets) : ~IsBuiltIn(widgets[j].id)

----------------------------------------------------------------------------
(* The active view *)

NextActiveView ==
    \/ NextViews
    \/ resetToDefaults
    \/ resetStore

SpecActiveView == Init /\ [][NextActiveView]_vars

\* C24: in every state reached by saveView, loadView, deleteView, setDefaultView,
\* resetToDefaults and resetStore, activeViewId is null or the id of a saved
\* view; deleteView of the active view leaves it the id of the first remaining
\* view, null if none remains.
C24_ActiveViewExists ==
    /\ [](activeViewId = Null \/ activeViewId \in ViewIds)
    /\ [][\A id \in ViewIdInputs : (deleteView(id) /\ activeViewId = id) =>
            LET rest == Filter(savedViews, LAMBDA v : v.id # id)
            IN  activeViewId' = IF rest = <<>> THEN Null ELSE rest[1].id]_vars

\* the active view was deleted and the first remaining view is the active one
C24_Witness ==
    /\ last.op = "deleteView" /\ last.result = "changed"
    /\ Len(savedViews) >= 2
    /\ activeViewId = savedViews[1].id

----------------------------------------------------------------------------
(* The quotes route (app/api/quotes/route.ts): the sliding-window limiter *)

maxRequests == 5
windowMs == 60000

RateLimitError == "Rate limit exceeded, try again later"

\* checkRateLimit with every request admitted
checkRateLimitAlways(requests) == TRUE

\* checkRateLimit: the requests of the last windowMs, and the test on them
recentRequests(requests, t) == Filter(requests, LAMBDA r : t - r < windowMs)
checkRateLimit(requests) == Len(requests) < maxRequests

\* symbols.indexOf(symbol), from 1
IndexOf(seq, x) == CHOOSE k \in 1..Len(seq) : seq[k] = x /\ \A j \in 1..(k - 1) : seq[j] # x

\* the for loop of GET from the symbol at position k up to its next await or to
\* the response, run at one reading of the clock: a symbol within the budget is
\* recorded and its fetchSingleQuote call started; with the budget spent, this
\* symbol and the symbols after it get the error, with no await in between
loopFrom(g, get, k) ==
    LET recent == recentRequests(rateLimitState.requests, now)
        rest == {get.symbols[j] : j \in k..Len(get.symbols)}
    IN  IF k > Len(get.symbols)
        THEN /\ gets' = [gets EXCEPT ![g] = [get EXCEPT !.pc = "done", !.k = k, !.status = 200]]
             /\ UNCHANGED <<rateLimitState, upstream>>
        ELSE IF checkRateLimit(recent)
        THEN /\ rateLimitState' = [requests |-> Append(recent, now)]
             /\ upstream' = Append(upstream, now)
             /\ gets' = [gets EXCEPT ![g] = [get EXCEPT !.pc = "fetching", !.k = k]]
        ELSE /\ rateLimitState' = [requests |-> recent]
             /\ gets' = [gets EXCEPT ![g] =
                    [get EXCEPT !.pc = "done", !.k = Len(get.symbols) + 1, !.status = 200,
                                !.errors = [s \in DOMAIN get.errors \cup rest |->
                                                IF s \in rest THEN RateLimitError
                                                ELSE get.errors[s]]]]
             /\ UNCHANGED upstream

\* GET(request) up to its first await or its response; symbols is the parsed
\* symbols parameter, Null when the parameter is missing
GET(g, symbols) ==
    /\ gets[g].pc \in {"idle", "done"}
    /\ started' = started + 1
    /\ IF symbols = Null
       THEN /\ gets' = [gets EXCEPT ![g] = [IdleGet EXCEPT !.pc = "done", !.status = 400]]
            /\ UNCHANGED <<rateLimitState, upstream>>
       ELSE IF Len(symbols) = 0
       THEN /\ gets' = [gets EXCEPT ![g] = [IdleGet EXCEPT !.pc = "done", !.status = 200]]
            /\ UNCHANGED <<rateLimitState, upstream>>
       ELSE IF Len(symbols) > 10
       THEN /\ gets' = [gets EXCEPT ![g] = [IdleGet EXCEPT !.pc = "done", !.status = 400]]
            /\ UNCHANGED <<rateLimitState, upstream>>
       ELSE loopFrom(g, [IdleGet EXCEPT !.symbols = symbols], 1)
    /\ last' = [op |-> "GET", result |-> gets'[g].pc]
    /\ UNCHANGED <<storeVars, componentVars, storageVars, fetchVars, searchVars>>

\* await fetchSingleQuote(symbol, apiKey) returns a quote or an error; then the
\* 200 ms wait, or the rest of the loop
fetchSingleQuoteReturns(g, result) ==
    LET get == gets[g]
        symbol == get.symbols[get.k]
        got == IF result = "quote"
               THEN [get EXCEPT !.quotes = @ \cup {symbol}]
               ELSE [get EXCEPT !.errors = Put(@, symbol, result)]
    IN  /\ get.pc = "fetching"
        /\ IF IndexOf(get.symbols, symbol) < Len(get.symbols)
           THEN /\ gets' = [gets EXCEPT ![g] = [got EXCEPT !.pc = "sleeping", !.wakeAt = now + 200]]
                /\ UNCHANGED <<rateLimitState, upstream>>
           ELSE loopFrom(g, got, get.k + 1)
        /\ last' = [op |-> "fetchSingleQuote", result |-> result]
        /\ UNCHANGED <<storeVars, componentVars, storageVars, fetchVars, searchVars, started>>

\* the setTimeout of the 200 ms wait has fired: the next pass of the loop
resumeGet(g) ==
    /\ gets[g].pc = "sleeping"
    /\ now >= gets[g].wakeAt
    /\ loopFrom(g, gets[g], gets[g].k + 1)
    /\ last' = [op |-> "GET resumed", result |-> gets'[g].pc]
    /\ UNCHANGED <<storeVars, componentVars, storageVars, fetchVars, searchVars, started>>

\* Date.now() moves on: to the time a pending timer is due, or by ClockStep
clockAdvances(t) ==
    /\ t > now
    /\ \/ t = now + ClockStep
       \/ \E g \in GetSlots : gets[g].pc = "sleeping" /\ gets[g].wakeAt = t
    /\ now' = t
    /\ last' = [op |-> "Date.now", result |-> "changed"]
    /\ UNCHANGED <<portfolioVars, dashboardVars, uiVars, nextUuid, input, envVars>>

\* the symbols parameter of a request, parsed: missing, empty, one, two equal,
\* three symbols
SymbolsInputs ==
    {Null, <<"">>, <<"VTI">>, <<"VTI", "VTI">>, <<"VTI", "SPY", "QQQ">>}

NextQuotes ==
    \/ \E g \in GetSlots, symbols \in SymbolsInputs :
            started < MaxGetCalls /\ GET(g, IF symbols = <<"">> THEN <<>> ELSE symbols)
    \/ \E g \in GetSlots, result \in {"quote", "HTTP 500"} : fetchSingleQuoteReturns(g, result)
    \/ \E g \in GetSlots : resumeGet(g)
    \/ \E t \in {now + ClockStep} \cup {gets[g].wakeAt : g \in GetSlots} :
            t <= MaxClock /\ clockAdvances(t)

SpecQuotes == Init /\ [][NextQuotes]_vars

\* the budget is spent at this reading of the clock
BudgetSpent == ~checkRateLimit(recentRequests(rateLimitState.requests, now))

\* C26: the limiter admits at most 5 fetchSingleQuote calls in any 60 s, however
\* the GET calls interleave at their awaits: of any 6 calls in a row the last is
\* at least windowMs after the first; and a GET that reaches a symbol with the
\* budget spent makes no call for it and gives it the error
\* 'Rate limit exceeded, try again later'.
C26_LimiterAdmitsFivePerWindow ==
    /\ [](\A i \in 1..Len(upstream) :
            i + maxRequests <= Len(upstream) => upstream[i + maxRequests] - upstream[i] >= windowMs)
    /\ [][\A g \in GetSlots :
            (resumeGet(g) /\ BudgetSpent /\ gets[g].k < Len(gets[g].symbols)) =>
                /\ upstream' = upstream
                /\ gets'[g].errors[gets[g].symbols[gets[g].k + 1]] = RateLimitError]_vars

\* five calls were made at once by two GET calls taking turns, one GET has given a
\* symbol the rate-limit error while the other waits for its quote
C26_Witness ==
    /\ Len(upstream) = maxRequests
    /\ \E g, h \in GetSlots :
            /\ gets[g].pc = "done"
            /\ \E s \in DOMAIN gets[g].errors : gets[g].errors[s] = RateLimitError
            /\ gets[h].pc = "fetching"

----------------------------------------------------------------------------
(* The symbol search box (components/portfolio/SymbolSearch.tsx) *)

\* what /api/search returns for a query: one result, whose symbol is the query
SearchResultsFor(query) == << [symbol |-> query, name |-> query] >>

\* the effect on [inputValue], run when inputValue has changed: its cleanup
\* clears the pending timer, a blank query empties the results, any other query
\* sets the 300 ms timer
inputValueEffect(newInput, cleared) ==
    LET query == Trim(newInput)
    IN  IF newInput = inputValue
        THEN /\ timeoutId' = timeoutId
             /\ results' = IF cleared THEN <<>> ELSE results
             /\ shownFor' = IF cleared THEN Null ELSE shownFor
        ELSE IF Len(query) < 1
        THEN /\ timeoutId' = Null
             /\ results' = <<>>
             /\ shownFor' = Null
        ELSE /\ timeoutId' = query
             /\ results' = IF cleared THEN <<>> ELSE results
             /\ shownFor' = IF cleared THEN Null ELSE shownFor

\* handleInputChange(newValue, {reason}) with searchMode "symbol"
handleInputChange(newValue, reason) ==
    /\ IF reason \in {"item-press", "input-clear"}
       THEN UNCHANGED searchVars
       ELSE /\ inputValue' = toUpperCase(newValue)
            /\ inputValueEffect(toUpperCase(newValue), FALSE)
            /\ UNCHANGED <<isLoading, isOpen, searches>>
    /\ last' = [op |-> "handleInputChange", result |-> Outcome(searchVars, searchVars')]
    /\ UNCHANGED <<storeVars, componentVars, storageVars, fetchVars, routeVars>>

\* handleSelect(result) with searchMode "symbol"
handleSelect(result) ==
    /\ inputValue' = result.symbol
    /\ isOpen' = FALSE
    /\ inputValueEffect(result.symbol, TRUE)
    /\ UNCHANGED <<isLoading, searches>>
    /\ last' = [op |-> "handleSelect", result |-> Outcome(searchVars, searchVars')]
    /\ UNCHANGED <<storeVars, componentVars, storageVars, fetchVars, routeVars>>

\* the 300 ms timer fires: setIsLoading(true) and the searchSymbols(query) call
searchTimerFires ==
    /\ timeoutId # Null
    /\ isLoading' = TRUE
    /\ searches' = Append(searches, timeoutId)
    /\ timeoutId' = Null
    /\ last' = [op |-> "searchSymbols", result |-> "pending"]
    /\ UNCHANGED <<storeVars, componentVars, storageVars, fetchVars, routeVars,
                   inputValue, results, isOpen, shownFor>>

\* await searchSymbols(query) of the k-th call in flight settles: with results,
\* with none, or by throwing
searchSettles(k, outcome) ==
    LET query == searches[k]
        searchResults == IF outcome = "results" THEN SearchResultsFor(query) ELSE <<>>
    IN  /\ k \in 1..Len(searches)
        /\ results' = searchResults
        /\ shownFor' = query
        /\ isOpen' = IF Len(searchResults) > 0 THEN TRUE ELSE isOpen
        /\ isLoading' = FALSE
        /\ searches' = SubSeq(searches, 1, k - 1) \o SubSeq(searches, k + 1, Len(searches))
        /\ last' = [op |-> "searchSymbols", result |-> outcome]
        /\ UNCHANGED <<storeVars, componentVars, storageVars, fetchVars, routeVars,
                       inputValue, timeoutId>>

\* what is typed: a letter, two letters, the letter with a blank, blanks, nothing
QueryInputs == {<<"v">>, <<"v","t">>, <<"v"," ">>, <<" ">>, <<>>}

NextSearch ==
    \/ \E v \in QueryInputs, reason \in {"input-change", "input-clear"} :
            handleInputChange(v, reason)
    \/ \E k \in 1..Len(results) : handleSelect(results[k])
    \/ Len(searches) < MaxSearches /\ searchTimerFires
    \/ \E k \in 1..Len(searches), outcome \in {"results", "empty", "threw"} :
            searchSettles(k, outcome)

SpecSearch == Init /\ [][NextSearch]_vars

\* C30: once typing has stopped and every search that was started has settled
\* (no timer pending, no call in flight), the results that a search has put on
\* display are those of the search for the query typed last; the answer to an
\* earlier query never replaces them.
C30_ResultsAreForLastQuery ==
    /\ [](timeoutId = Null /\ searches = <<>> /\ shownFor # Null =>
            shownFor = Trim(inputValue))
    /\ [][\A k \in 1..Len(searches), outcome \in {"results", "empty", "threw"} :
            (searchSettles(k, outcome) /\ searches[k] # Trim(inputValue)) =>
                results' = results]_vars
====
